---- MODULE Spec2Model ----
(***************************************************************************)
(* Model of the ATS resume analyser: job_matcher.py (scoring, evaluators,  *)
(* suggestion rules), resume_parser.py (vocabulary) and the Analyze        *)
(* handler of app.py.                                                      *)
(*                                                                         *)
(* Numbers.  Python floats are modelled by exact rationals [n, d].  A      *)
(* value rounded with round(x, 1) is kept as an integer number of tenths   *)
(* (873 is 87.3).  The evaluators' results 0.0 .. 1.0 are kept in tenths   *)
(* as well (7 is 0.7), a resume duration (rounded to one decimal by        *)
(* extract_experience) in tenths of a year, and the TF-IDF cosine          *)
(* similarity in thousandths.                                              *)
(*                                                                         *)
(* Texts.  A degree phrase is a sequence of characters, so that the        *)
(* substring tests of evaluate_education_match are computed.  A job        *)
(* description is a record of what the regular expressions and the         *)
(* tokenizer find in it (skills with their importance, years matches with  *)
(* the skills in their context, education phrases, content tokens).        *)
(* The extractors of resume_parser.py and job_matcher.py are also run on   *)
(* their own, each under a specification of its own, on texts given as     *)
(* sequences of characters (extract_skills, the education patterns) or by  *)
(* what the regular expressions and the phrase matcher find in them        *)
(* (header places, date tokens, skill matches with their windows).         *)
(***************************************************************************)
EXTENDS Integers, Sequences, FiniteSets, TLC

VARIABLES
    resume_file,       \* the uploaded resume as extract_resume_data reads it, or NoFile
    jd_text,           \* the job description
    tfidf_similarity,  \* cosine similarity of the two texts, in thousandths
    pc,                \* position of the run (see the actions)
    result,            \* the ScoreResult of score_resume, or NoResult
    suggestions,       \* the list generate_improvement_suggestions returned
    resume_edu,        \* education evaluator: the resume's education record
    jd_edu_req,        \* education evaluator: the job's education requirement
    edu_score,         \* education evaluator: returned value in tenths, or NotRun
    resume_exp,        \* experience evaluator: the resume's experience record
    years_matches,     \* experience extractor: the years matches of the job text
    jd_requirements,   \* experience extractor: the list it returned
    exp_score,         \* experience evaluator: returned value in tenths, or NotRun
    extractor_input,   \* a text extractor run on its own: what it is given
    extractor_output,  \* a text extractor run on its own: what it returned, or NotRun
    sessions,          \* analyses of several browser sessions running at once
    module_globals     \* the module-level objects all sessions share

vars == <<resume_file, jd_text, tfidf_similarity, pc, result, suggestions,
          resume_edu, jd_edu_req, edu_score,
          resume_exp, years_matches, jd_requirements, exp_score,
          extractor_input, extractor_output, sessions, module_globals>>

\* no file uploaded / no ScoreResult returned: records of another shape
NoFile == [none |-> TRUE]

NoResult == [none |-> TRUE]

\* an evaluator that has not run has returned nothing
NotRun == 0 - 1

\* Python's None where a string is expected (a degree level)
None == <<>>

\* Python's None where a number is expected (a duration)
NoDuration == 0 - 1

----------------------------------------------------------------------------
\* Bounds of the model

MaxJdSkills == 2      \* detected job skills of a job description
MaxDegrees == 2       \* degree phrases of a resume (education evaluator)
MaxYearsMatches == 2  \* years matches of a job description (experience extractor)
MaxYears == 4         \* largest number of years written in a job description

----------------------------------------------------------------------------
\* Arithmetic on exact rationals

RECURSIVE GCD(_, _)
GCD(a, b) == IF b = 0 THEN a ELSE GCD(b, a % b)

Rat(n, d) == LET g == GCD(n, d) IN IF g = 0 THEN [n |-> 0, d |-> 1] ELSE [n |-> n \div g, d |-> d \div g]

RPlus(a, b) == Rat(a.n * b.d + b.n * a.d, a.d * b.d)

RTimes(a, b) == Rat(a.n * b.n, a.d * b.d)

\* round(x, 1), in tenths; a tie goes to the even tenth
Round1(x) ==
    LET q == (10 * x.n) \div x.d
        r == (10 * x.n) % x.d
    IN  IF 2 * r > x.d THEN q + 1
        ELSE IF 2 * r = x.d THEN q + (q % 2)
        ELSE q

----------------------------------------------------------------------------
\* Sequences

RECURSIVE SeqSum(_)
SeqSum(s) == IF s = <<>> THEN 0 ELSE Head(s) + SeqSum(Tail(s))

Range(s) == {s[i] : i \in DOMAIN s}

RECURSIVE SelectSeqBy(_, _)
\* the subsequence of s whose indices are in keep, in order (a list comprehension)
SelectSeqBy(s, keep) ==
    IF s = <<>> THEN <<>>
    ELSE LET rest == SelectSeqBy(Tail(s), {i - 1 : i \in keep \ {1}})
         IN  IF 1 \in keep THEN <<Head(s)>> \o rest ELSE rest

\* sequences of length at most n over S
SeqsUpTo(S, n) == UNION {[1..k -> S] : k \in 0..n}

\* is the character sequence a a substring of b (Python: a in b)
IsSubstring(a, b) ==
    \E i \in 0..(Len(b) - Len(a)) : \A j \in 1..Len(a) : b[i + j] = a[j]

----------------------------------------------------------------------------
\* Character strings used by the education evaluator

S_associate == <<"a", "s", "s", "o", "c", "i", "a", "t", "e">>

S_bachelor == <<"b", "a", "c", "h", "e", "l", "o", "r">>

S_bachelors == <<"b", "a", "c", "h", "e", "l", "o", "r", "s">>

S_bachelor_s == <<"b", "a", "c", "h", "e", "l", "o", "r", "'", "s">>

S_master == <<"m", "a", "s", "t", "e", "r">>

S_masters == <<"m", "a", "s", "t", "e", "r", "s">>

S_master_s == <<"m", "a", "s", "t", "e", "r", "'", "s">>

S_phd == <<"p", "h", "d">>

S_doctorate == <<"d", "o", "c", "t", "o", "r", "a", "t", "e">>

S_diploma == <<"d", "i", "p", "l", "o", "m", "a">>

----------------------------------------------------------------------------
\* Education evaluator (job_matcher.py, evaluate_education_match)

\* the dict degree_levels, in its insertion order
degree_levels ==
    << [level |-> S_associate, value |-> 1],
       [level |-> S_bachelor, value |-> 2],
       [level |-> S_bachelors, value |-> 2],
       [level |-> S_masters, value |-> 3],
       [level |-> S_master, value |-> 3],
       [level |-> S_phd, value |-> 4],
       [level |-> S_doctorate, value |-> 4] >>

\* the loop "for degree in resume_degrees: for level, value in degree_levels"
HighestDegree(resume_degrees) ==
    LET hits == {degree_levels[k].value : k \in
                    {k \in DOMAIN degree_levels :
                        \E i \in DOMAIN resume_degrees :
                            IsSubstring(degree_levels[k].level, resume_degrees[i])}}
    IN  IF hits = {} THEN 0 ELSE CHOOSE v \in hits : \A w \in hits : w <= v

\* the loop with break: the value of the first level that occurs in required_level
ReqLevelValue(required_level) ==
    LET found == {k \in DOMAIN degree_levels :
                     IsSubstring(degree_levels[k].level, required_level)}
    IN  IF found = {} THEN 0
        ELSE degree_levels[CHOOSE k \in found : \A m \in found : k <= m].value

evaluate_education_match_swapped(edu, req) ==
    IF ~req.degree_required THEN 10
    ELSE IF edu.degrees = <<>> THEN 0
    ELSE IF req.degree_level = None THEN 8
    ELSE LET highest_degree == HighestDegree(edu.degrees)
             req_level_value == ReqLevelValue(req.degree_level)
         IN  IF highest_degree >= req_level_value THEN 10
             ELSE IF highest_degree = req_level_value - 1 THEN 3
             ELSE 7

\* returns tenths: 10 is 1.0
evaluate_education_match(edu, req) ==
    IF ~req.degree_required THEN 10
    ELSE IF edu.degrees = <<>> THEN 0
    ELSE IF req.degree_level = None THEN 8
    ELSE LET highest_degree == HighestDegree(edu.degrees)
             req_level_value == ReqLevelValue(req.degree_level)
         IN  IF highest_degree >= req_level_value THEN 10
             ELSE IF highest_degree = req_level_value - 1 THEN 7
             ELSE 3

\* degree phrases the degree pattern of extract_education can return
DegreePhrases ==
    {S_associate, S_bachelor_s, S_masters, S_phd, S_diploma}

\* what degree_level_pattern of extract_education_requirements can return
RequiredLevels ==
    {None, S_associate, S_bachelor, S_bachelor_s, S_master, S_master_s, S_phd, S_doctorate}

ResumeEduInputs == {[degrees |-> d] : d \in SeqsUpTo(DegreePhrases, MaxDegrees)}

JdEduInputs == [degree_required : BOOLEAN, degree_level : RequiredLevels]

----------------------------------------------------------------------------
\* Experience extractor and evaluator (job_matcher.py)

\* the flattened vocabulary, in the order of SKILLS_DB (three of its terms)
ALL_SKILLS == <<"python", "sql", "docker">>

\* the module-level objects after the imports: the vocabulary list, and the
\* names of the module-level objects an analysis has used so far
ImportedGlobals == [ALL_SKILLS |-> ALL_SKILLS, used |-> {}]

\* extract_experience_requirements.  m is the sequence of matches of
\* years_pattern in document order: [years, context], context the set of
\* vocabulary skills that occur within 50 characters of the match.  The
\* loop "for skill in ALL_SKILLS" reads the list as it is at that moment.
RECURSIVE SkillPairsOver(_, _)
SkillPairsOver(vocabulary, m) ==
    IF m = <<>> THEN <<>>
    ELSE LET here == SelectSeqBy(vocabulary,
                                 {i \in DOMAIN vocabulary : vocabulary[i] \in Head(m).context})
         IN  [i \in DOMAIN here |-> <<here[i], Head(m).years>>] \o SkillPairsOver(vocabulary, Tail(m))

SkillPairs(m) == SkillPairsOver(ALL_SKILLS, m)

extract_experience_requirements_always_general(vocabulary, m) ==
    LET exp_requirements == SkillPairsOver(vocabulary, m)
    IN  IF m # <<>> THEN exp_requirements \o << <<"general", m[1].years>> >> ELSE exp_requirements

extract_experience_requirements_over(vocabulary, m) ==
    LET exp_requirements == SkillPairsOver(vocabulary, m)
    IN  IF exp_requirements = <<>>
        THEN IF m # <<>> THEN << <<"general", m[1].years>> >> ELSE <<>>
        ELSE exp_requirements

extract_experience_requirements(m) == extract_experience_requirements_over(ALL_SKILLS, m)

\* next((years for skill, years in jd_requirements if skill == "general"), 0)
GeneralReq(reqs) ==
    LET gen == {i \in DOMAIN reqs : reqs[i][1] = "general"}
    IN  IF gen = {} THEN 0 ELSE reqs[CHOOSE i \in gen : \A j \in gen : i <= j][2]

evaluate_experience_match_strict(exp, reqs) ==
    IF exp.duration = NoDuration \/ exp.duration = 0 \/ reqs = <<>> THEN 5
    ELSE LET general_req == GeneralReq(reqs)
         IN  IF general_req > 0
             THEN IF exp.duration > general_req * 10 THEN 10
                  ELSE IF exp.duration * 10 >= general_req * 70 THEN 7
                  ELSE 4
             ELSE 5

evaluate_experience_match_first_requirement(exp, reqs) ==
    IF exp.duration = NoDuration \/ exp.duration = 0 \/ reqs = <<>> THEN 5
    ELSE LET general_req == reqs[1][2]
         IN  IF general_req > 0
             THEN IF exp.duration >= general_req * 10 THEN 10
                  ELSE IF exp.duration * 10 >= general_req * 70 THEN 7
                  ELSE 4
             ELSE 5

\* returns tenths: 10 is 1.0; exp.duration is in tenths of a year
evaluate_experience_match(exp, reqs) ==
    IF exp.duration = NoDuration \/ exp.duration = 0 \/ reqs = <<>> THEN 5
    ELSE LET general_req == GeneralReq(reqs)
         IN  IF general_req > 0
             THEN IF exp.duration >= general_req * 10 THEN 10
                  ELSE IF exp.duration * 10 >= general_req * 70 THEN 7
                  ELSE 4
             ELSE 5

YearsMatchInputs ==
    SeqsUpTo([years : 0..MaxYears, context : SUBSET {"python", "sql"}], MaxYearsMatches)

\* None, 0 (no experience section) or a positive number of tenths of a year
DurationInputs == {NoDuration} \cup (0 .. (10 * MaxYears + 5))

----------------------------------------------------------------------------
\* The evaluators run on their own

InitEdu ==
    /\ resume_edu \in ResumeEduInputs
    /\ jd_edu_req \in JdEduInputs
    /\ edu_score = NotRun
    /\ pc = "edu_idle"
    /\ resume_file = NoFile /\ jd_text = NoFile /\ tfidf_similarity = 0
    /\ result = NoResult /\ suggestions = <<>>
    /\ resume_exp = [duration |-> NoDuration] /\ years_matches = <<>>
    /\ jd_requirements = <<>> /\ exp_score = NotRun
    /\ extractor_input = <<>> /\ extractor_output = NotRun
    /\ sessions = <<>>
    /\ module_globals = ImportedGlobals

EvaluateEducation ==
    /\ pc = "edu_idle"
    /\ edu_score' = evaluate_education_match(resume_edu, jd_edu_req)
    /\ pc' = "edu_done"
    /\ UNCHANGED <<resume_file, jd_text, tfidf_similarity, result, suggestions,
                   resume_edu, jd_edu_req,
                   resume_exp, years_matches, jd_requirements, exp_score,
                   extractor_input, extractor_output,
                   sessions, module_globals>>

SpecEdu == InitEdu /\ [][EvaluateEducation]_vars

InitExp ==
    /\ resume_exp \in [duration : DurationInputs]
    /\ years_matches \in YearsMatchInputs
    /\ jd_requirements = <<>>
    /\ exp_score = NotRun
    /\ pc = "exp_idle"
    /\ resume_file = NoFile /\ jd_text = NoFile /\ tfidf_similarity = 0
    /\ result = NoResult /\ suggestions = <<>>
    /\ resume_edu = [degrees |-> <<>>]
    /\ jd_edu_req = [degree_required |-> FALSE, degree_level |-> None]
    /\ edu_score = NotRun
    /\ extractor_input = <<>> /\ extractor_output = NotRun
    /\ sessions = <<>>
    /\ module_globals = ImportedGlobals

ExtractExperienceRequirements ==
    /\ pc = "exp_idle"
    /\ jd_requirements' = extract_experience_requirements(years_matches)
    /\ pc' = "exp_extracted"
    /\ UNCHANGED <<resume_file, jd_text, tfidf_similarity, result, suggestions,
                   resume_edu, jd_edu_req, edu_score,
                   resume_exp, years_matches, exp_score,
                   extractor_input, extractor_output,
                   sessions, module_globals>>

EvaluateExperience ==
    /\ pc = "exp_extracted"
    /\ exp_score' = evaluate_experience_match(resume_exp, jd_requirements)
    /\ pc' = "exp_done"
    /\ UNCHANGED <<resume_file, jd_text, tfidf_similarity, result, suggestions,
                   resume_edu, jd_edu_req, edu_score,
                   resume_exp, years_matches, jd_requirements,
                   extractor_input, extractor_output,
                   sessions, module_globals>>

NextExp == ExtractExperienceRequirements \/ EvaluateExperience

SpecExp == InitExp /\ [][NextExp]_vars

----------------------------------------------------------------------------
\* Keyword frequency analyser (job_matcher.py, calculate_keyword_frequency)

\* most_common(20)
TopKeywordCount == 20

\* the number of times w occurs in the token sequence
Count(tokens, w) == Cardinality({i \in DOMAIN tokens : tokens[i] = w})

\* the index of the first occurrence of w
FirstIndex(tokens, w) == CHOOSE i \in DOMAIN tokens : tokens[i] = w /\ \A j \in 1..(i - 1) : tokens[j] # w

\* Counter(keywords).most_common(): by descending count, ties in the order
\* of first occurrence
RECURSIVE MostCommon(_, _)
MostCommon(tokens, left) ==
    IF left = {} THEN <<>>
    ELSE LET best == CHOOSE w \in left : \A v \in left \ {w} :
                        \/ Count(tokens, w) > Count(tokens, v)
                        \/ /\ Count(tokens, w) = Count(tokens, v)
                           /\ FirstIndex(tokens, w) < FirstIndex(tokens, v)
         IN  <<best>> \o MostCommon(tokens, left \ {best})

calculate_keyword_frequency_over_20(resume_text, jd) ==
    LET ranked == MostCommon(jd.tokens, Range(jd.tokens))
        top_keywords == SubSeq(ranked, 1, IF Len(ranked) < TopKeywordCount THEN Len(ranked) ELSE TopKeywordCount)
        keyword_presence == [w \in Range(top_keywords) |-> resume_text.counts[w]]
        keywords_found == Cardinality({w \in Range(top_keywords) : keyword_presence[w] > 0})
    IN  [keyword_presence |-> keyword_presence,
         keyword_coverage |-> IF top_keywords # <<>> THEN Rat(keywords_found, TopKeywordCount) ELSE Rat(0, 1),
         top_keywords |-> top_keywords]

\* resume_text.counts[w] is the number of matches of the word-delimited
\* pattern of w in the resume
calculate_keyword_frequency(resume_text, jd) ==
    LET ranked == MostCommon(jd.tokens, Range(jd.tokens))
        top_keywords == SubSeq(ranked, 1, IF Len(ranked) < TopKeywordCount THEN Len(ranked) ELSE TopKeywordCount)
        keyword_presence == [w \in Range(top_keywords) |-> resume_text.counts[w]]
        keywords_found == Cardinality({w \in Range(top_keywords) : keyword_presence[w] > 0})
    IN  [keyword_presence |-> keyword_presence,
         keyword_coverage |-> IF top_keywords # <<>> THEN Rat(keywords_found, Len(top_keywords)) ELSE Rat(0, 1),
         top_keywords |-> top_keywords]

----------------------------------------------------------------------------
\* Score aggregator (job_matcher.py, score_resume)

KEYWORD_WEIGHTS_flat ==
    [must_have |-> 10, preferred |-> 10, experience |-> 10, education |-> 10, standard |-> 10]

\* in tenths: 20 is 2.0
KEYWORD_WEIGHTS ==
    [must_have |-> 20, preferred |-> 15, experience |-> 18, education |-> 13, standard |-> 10]

\* in hundredths: 40 is 0.40
weights == [skills |-> 40, keywords |-> 20, content |-> 15, experience |-> 15, education |-> 10]

\* the job's education requirement record (its field of study is not used by the score)
extract_education_requirements(jd) ==
    [degree_required |-> jd.degree_required, degree_level |-> jd.degree_level]

\* TfidfVectorizer.fit_transform raises ValueError (empty vocabulary) when
\* neither text holds a term
EmptyVocabulary(resume_data, jd) == ~resume_data.text.has_terms /\ ~jd.has_terms

\* the skills of the dict items whose indices are in keep, in dict order
SkillsAt(jd_skills, keep) ==
    LET kept == SelectSeqBy(jd_skills, keep) IN [i \in DOMAIN kept |-> kept[i].skill]

\* total_weight of the weighting loop
TotalWeight(jd_skills) ==
    SeqSum([i \in DOMAIN jd_skills |-> KEYWORD_WEIGHTS[jd_skills[i].importance]])

\* matched_weight of the weighting loop
MatchedWeight(jd_skills, resume_skills) ==
    SeqSum([i \in DOMAIN jd_skills |->
               IF jd_skills[i].skill \in resume_skills
               THEN KEYWORD_WEIGHTS[jd_skills[i].importance]
               ELSE 0])

SkillsMatch_full_by_default(jd_skills, resume_skills) ==
    IF TotalWeight(jd_skills) > 0
    THEN Rat(MatchedWeight(jd_skills, resume_skills) * 100, TotalWeight(jd_skills))
    ELSE Rat(100, 1)

\* (matched_weight / total_weight) * 100 if total_weight > 0 else 0
SkillsMatch(jd_skills, resume_skills) ==
    IF TotalWeight(jd_skills) > 0
    THEN Rat(MatchedWeight(jd_skills, resume_skills) * 100, TotalWeight(jd_skills))
    ELSE Rat(0, 1)

\* must_have_skills, preferred_skills, standard_skills of the weighting loop
\* (the else branch takes every importance that is neither of the first two)
MatchedSkills(jd_skills, resume_skills, importance) ==
    SkillsAt(jd_skills,
             {i \in DOMAIN jd_skills :
                 /\ jd_skills[i].skill \in resume_skills
                 /\ IF importance = "standard"
                    THEN jd_skills[i].importance \notin {"must_have", "preferred"}
                    ELSE jd_skills[i].importance = importance})

MissingSkills_of_importance(jd_skills, resume_skills, importance) ==
    SkillsAt(jd_skills, {i \in DOMAIN jd_skills : jd_skills[i].importance = importance})

\* missing_must_have, missing_preferred
MissingSkills(jd_skills, resume_skills, importance) ==
    SkillsAt(jd_skills,
             {i \in DOMAIN jd_skills :
                 jd_skills[i].importance = importance /\ jd_skills[i].skill \notin resume_skills})

\* score_resume from the point where the experience requirements are extracted
score_resume_from(resume_data, jd, similarity, jd_exp_requirements) ==
    LET jd_skills_with_importance == jd.skills
        jd_edu_requirements == extract_education_requirements(jd)
        resume_skills == resume_data.skills
        skills_match == SkillsMatch(jd_skills_with_importance, resume_skills)
        content_similarity == Rat(similarity * 100, 1000)
        keyword_data == calculate_keyword_frequency(resume_data.text, jd)
        exp_match == Rat(evaluate_experience_match(resume_data.experience, jd_exp_requirements) * 100, 10)
        edu_match == Rat(evaluate_education_match(resume_data.education, jd_edu_requirements) * 100, 10)
        keyword_match == RTimes(keyword_data.keyword_coverage, Rat(100, 1))
        final_score ==
            RPlus(RTimes(skills_match, Rat(weights.skills, 100)),
            RPlus(RTimes(keyword_match, Rat(weights.keywords, 100)),
            RPlus(RTimes(content_similarity, Rat(weights.content, 100)),
            RPlus(RTimes(exp_match, Rat(weights.experience, 100)),
                  RTimes(edu_match, Rat(weights.education, 100))))))
    IN  [score |-> Round1(final_score),
         component_scores |->
             [skills_match |-> Round1(skills_match),
              keyword_match |-> Round1(keyword_match),
              content_similarity |-> Round1(content_similarity),
              experience_match |-> Round1(exp_match),
              education_match |-> Round1(edu_match)],
         matched_skills |->
             [must_have |-> MatchedSkills(jd_skills_with_importance, resume_skills, "must_have"),
              preferred |-> MatchedSkills(jd_skills_with_importance, resume_skills, "preferred"),
              standard |-> MatchedSkills(jd_skills_with_importance, resume_skills, "standard")],
         missing_skills |->
             [must_have |-> MissingSkills(jd_skills_with_importance, resume_skills, "must_have"),
              preferred |-> MissingSkills(jd_skills_with_importance, resume_skills, "preferred")],
         keyword_analysis |-> keyword_data.keyword_presence,
         top_keywords |-> keyword_data.top_keywords,
         experience_requirements |-> jd_exp_requirements,
         education_requirements |-> jd_edu_requirements]

score_resume(resume_data, jd, similarity) ==
    score_resume_from(resume_data, jd, similarity,
                      extract_experience_requirements(jd.years_matches))

----------------------------------------------------------------------------
\* Suggestion generator (job_matcher.py, generate_improvement_suggestions)

Suggestion(category, priority) == [category |-> category, priority |-> priority]

\* <<x>> if the rule's condition holds, nothing otherwise
When(cond, x) == IF cond THEN <<x>> ELSE <<>>

\* <<x>> if none of the earlier rules of the chain fired and cond holds
Elif(earlier, cond, x) == IF earlier = <<>> /\ cond THEN <<x>> ELSE <<>>

ComponentRules_elif(analysis_result) ==
    LET scores == analysis_result.component_scores
        skills == When(analysis_result.missing_skills.must_have # <<>>, Suggestion("Critical Skills", "High"))
                  \o When(analysis_result.missing_skills.preferred # <<>>, Suggestion("Preferred Skills", "Medium"))
        r3 == When(scores.skills_match < 500, Suggestion("Skills Alignment", "High"))
        r4 == r3 \o Elif(r3, scores.keyword_match < 400, Suggestion("Keywords", "Medium"))
        r5 == r4 \o Elif(r4, scores.content_similarity < 300, Suggestion("Content Relevance", "Medium"))
        r6 == r5 \o Elif(r5, scores.experience_match < 500, Suggestion("Experience", "High"))
        r7 == r6 \o Elif(r6, scores.education_match < 500, Suggestion("Education", "Medium"))
    IN  skills \o r7

\* rules 1-7; component scores are in tenths (500 is 50)
ComponentRules(analysis_result) ==
    LET scores == analysis_result.component_scores
    IN  When(analysis_result.missing_skills.must_have # <<>>, Suggestion("Critical Skills", "High"))
        \o When(analysis_result.missing_skills.preferred # <<>>, Suggestion("Preferred Skills", "Medium"))
        \o When(scores.skills_match < 500, Suggestion("Skills Alignment", "High"))
        \o When(scores.keyword_match < 400, Suggestion("Keywords", "Medium"))
        \o When(scores.content_similarity < 300, Suggestion("Content Relevance", "Medium"))
        \o When(scores.experience_match < 500, Suggestion("Experience", "High"))
        \o When(scores.education_match < 500, Suggestion("Education", "Medium"))

GeneralRule_whenever_below_85(first, score) ==
    IF score < 850
    THEN <<Suggestion("Resume Format", "Low"), Suggestion("Quantify Achievements", "Medium")>>
    ELSE <<>>

\* rule 8: "if not suggestions and analysis_result["score"] < 85"
GeneralRule(first, score) ==
    IF first = <<>> /\ score < 850
    THEN <<Suggestion("Resume Format", "Low"), Suggestion("Quantify Achievements", "Medium")>>
    ELSE <<>>

OverallRule_unless_flagged(earlier, score) ==
    IF score < 400 /\ \A i \in DOMAIN earlier : earlier[i].priority # "High"
    THEN <<Suggestion("Overall Match", "High")>>
    ELSE <<>>

OverallRule_below_50(earlier, score) == When(score < 500, Suggestion("Overall Match", "High"))

\* rule 9: "if analysis_result["score"] < 40"
OverallRule(earlier, score) == When(score < 400, Suggestion("Overall Match", "High"))

generate_improvement_suggestions(analysis_result) ==
    LET first == ComponentRules(analysis_result)
        second == first \o GeneralRule(first, analysis_result.score)
    IN  second \o OverallRule(second, analysis_result.score)

----------------------------------------------------------------------------
\* Inputs of an analysis

\* the text of a resume: whether it holds any term, and how often each
\* content word of the job descriptions below occurs in it as a whole word
ResumeTextInputs ==
    {[has_terms |-> TRUE, counts |-> [agile |-> 2, cloud |-> 0]]}

\* the dict extract_resume_data returns (the fields score_resume reads)
ResumeInputs ==
    [text : ResumeTextInputs,
     skills : SUBSET Range(ALL_SKILLS),
     experience : {[duration |-> 20], [duration |-> 30]},
     education : {[degrees |-> <<>>], [degrees |-> <<S_phd>>]}]

\* a PDF without extractable text: no term, no skill, no experience section
BlankResume ==
    [text |-> [has_terms |-> FALSE, counts |-> [agile |-> 0, cloud |-> 0]],
     skills |-> {},
     experience |-> [duration |-> 0],
     education |-> [degrees |-> <<>>]]

\* the dicts extract_jd_skills can return, as the sequences of their items
JdSkillInputs ==
    {s \in SeqsUpTo([skill : Range(ALL_SKILLS),
                     importance : {"must_have", "preferred", "standard"}], MaxJdSkills) :
        \A i, j \in DOMAIN s : i # j => s[i].skill # s[j].skill}

\* non-empty job descriptions: with "3 years" (no skill near it) and "phd
\* required", or with no requirement of experience or education
JdInputs ==
    [is_empty : {FALSE},
     has_terms : {TRUE},
     skills : JdSkillInputs,
     years_matches : {<<[years |-> 3, context |-> {}]>>},
     degree_required : {TRUE},
     degree_level : {S_phd},
     tokens : {<<"cloud">>, <<"cloud", "agile", "cloud">>}]
    \cup
    [is_empty : {FALSE},
     has_terms : {TRUE},
     skills : JdSkillInputs,
     years_matches : {<<>>},
     degree_required : {FALSE},
     degree_level : {None},
     tokens : {<<"agile">>}]

\* the empty string
EmptyJd ==
    [is_empty |-> TRUE, has_terms |-> FALSE, skills |-> <<>>, years_matches |-> <<>>,
     degree_required |-> FALSE, degree_level |-> None, tokens |-> <<>>]

\* cosine similarities of two texts that both hold terms, in thousandths
SimilarityInputs == {250, 900}

----------------------------------------------------------------------------
\* The analysis: score_resume and generate_improvement_suggestions called
\* as functions, and the Analyze button of home_page

Init ==
    /\ resume_file \in ResumeInputs \cup {BlankResume, NoFile}
    /\ jd_text \in JdInputs \cup {EmptyJd}
    /\ tfidf_similarity \in
           IF resume_file # NoFile /\ resume_file.text.has_terms /\ jd_text.has_terms
           THEN SimilarityInputs ELSE {0}
    /\ pc = "idle"
    /\ result = NoResult
    /\ suggestions = <<>>
    /\ resume_edu = [degrees |-> <<>>]
    /\ jd_edu_req = [degree_required |-> FALSE, degree_level |-> None]
    /\ edu_score = NotRun
    /\ resume_exp = [duration |-> NoDuration]
    /\ years_matches = <<>>
    /\ jd_requirements = <<>>
    /\ exp_score = NotRun
    /\ extractor_input = <<>>
    /\ extractor_output = NotRun
    /\ sessions = <<>>
    /\ module_globals = ImportedGlobals

\* score_resume(resume_data, jd_text): no test of jd_text precedes the extraction
ScoreResume ==
    /\ pc = "idle"
    /\ resume_file # NoFile
    /\ IF EmptyVocabulary(resume_file, jd_text)
       THEN /\ pc' = "raised"
            /\ result' = NoResult
       ELSE /\ pc' = "scored"
            /\ result' = score_resume(resume_file, jd_text, tfidf_similarity)
    /\ UNCHANGED <<resume_file, jd_text, tfidf_similarity, suggestions,
                   resume_edu, jd_edu_req, edu_score,
                   resume_exp, years_matches, jd_requirements, exp_score,
                   extractor_input, extractor_output,
                   sessions, module_globals>>

\* generate_improvement_suggestions(result)
GenerateImprovementSuggestions ==
    /\ pc = "scored"
    /\ suggestions' = generate_improvement_suggestions(result)
    /\ pc' = "suggested"
    /\ UNCHANGED <<resume_file, jd_text, tfidf_similarity, result,
                   resume_edu, jd_edu_req, edu_score,
                   resume_exp, years_matches, jd_requirements, exp_score,
                   extractor_input, extractor_output,
                   sessions, module_globals>>

\* home_page, "if analyze_button:": both inputs are needed, else st.error
AnalyzeButton ==
    /\ pc = "idle"
    /\ IF resume_file # NoFile /\ ~jd_text.is_empty
       THEN IF EmptyVocabulary(resume_file, jd_text)
            THEN /\ pc' = "crashed"
                 /\ UNCHANGED <<result, suggestions>>
            ELSE /\ result' = score_resume(resume_file, jd_text, tfidf_similarity)
                 /\ suggestions' = generate_improvement_suggestions(result')
                 /\ pc' = IF suggestions' = <<>> THEN "displayed_success" ELSE "displayed_plan"
       ELSE /\ pc' = "error"
            /\ UNCHANGED <<result, suggestions>>
    /\ UNCHANGED <<resume_file, jd_text, tfidf_similarity,
                   resume_edu, jd_edu_req, edu_score,
                   resume_exp, years_matches, jd_requirements, exp_score,
                   extractor_input, extractor_output,
                   sessions, module_globals>>

Next == ScoreResume \/ GenerateImprovementSuggestions \/ AnalyzeButton

Spec == Init /\ [][Next]_vars

----------------------------------------------------------------------------
\* Claims on score_resume (checked under Spec)

\* a ScoreResult has been returned
Scored == pc \in {"scored", "suggested", "displayed_success", "displayed_plan"}

\* the weights C1 names, in tenths
ClaimedWeight(importance) ==
    CASE importance = "must_have" -> 20
      [] importance = "preferred" -> 15
      [] importance = "standard" -> 10

\* the sum of the claimed weights of the job skills in the set among
ClaimedWeightSum(among) ==
    SeqSum([i \in DOMAIN jd_text.skills |->
               IF jd_text.skills[i].skill \in among
               THEN ClaimedWeight(jd_text.skills[i].importance) ELSE 0])

JobSkills == {jd_text.skills[i].skill : i \in DOMAIN jd_text.skills}

\* skills_match as C1 defines it
ClaimedSkillsMatch ==
    IF JobSkills = {} THEN Rat(0, 1)
    ELSE Rat(100 * ClaimedWeightSum(JobSkills \cap resume_file.skills), ClaimedWeightSum(JobSkills))

\* the weighted sum of C1
ClaimedFinalScore ==
    LET keyword_coverage == calculate_keyword_frequency(resume_file.text, jd_text).keyword_coverage
        content_similarity == Rat(tfidf_similarity, 1000)
        experience_match ==
            Rat(evaluate_experience_match(resume_file.experience,
                    extract_experience_requirements(jd_text.years_matches)), 10)
        education_match ==
            Rat(evaluate_education_match(resume_file.education,
                    extract_education_requirements(jd_text)), 10)
    IN  RPlus(RTimes(ClaimedSkillsMatch, Rat(40, 100)),
        RPlus(RTimes(keyword_coverage, Rat(100 * 20, 100)),
        RPlus(RTimes(content_similarity, Rat(100 * 15, 100)),
        RPlus(RTimes(experience_match, Rat(100 * 15, 100)),
              RTimes(education_match, Rat(100 * 10, 100))))))

\* C1: the score is the weighted sum 0.40 / 0.20 / 0.15 / 0.15 / 0.10 of the
\* five components (returned rounded to one decimal), the score and every
\* component lie in [0, 100], and skills_match is 100 * matched weight /
\* total weight with must_have 2.0, preferred 1.5, standard 1.0, and 0 when
\* no job skill is detected.
C1_WeightedScore ==
    Scored =>
        /\ result.score = Round1(ClaimedFinalScore)
        /\ result.score \in 0..1000
        /\ \A c \in DOMAIN result.component_scores : result.component_scores[c] \in 0..1000
        /\ DOMAIN result.component_scores =
               {"skills_match", "keyword_match", "content_similarity",
                "experience_match", "education_match"}
        /\ result.component_scores.skills_match = Round1(ClaimedSkillsMatch)
        /\ JobSkills = {} => result.component_scores.skills_match = 0

\* a must_have skill matched and a preferred one missing: 2.0 / 3.5 = 57.1
C1_Witness ==
    /\ pc = "scored"
    /\ jd_text.skills = <<[skill |-> "python", importance |-> "must_have"],
                          [skill |-> "sql", importance |-> "preferred"]>>
    /\ resume_file.skills = {"python"}
    /\ result.component_scores.skills_match = 571
    /\ result.score > 228
    /\ result.score < 1000

\* C2 as stated: skills_match is in [0, 100] and equals 100 exactly when
\* every detected job skill is in the resume skill set, also when no job
\* skill is detected.
C2_FullMatchIffAllPresent ==
    Scored =>
        /\ result.component_scores.skills_match \in 0..1000
        /\ result.component_scores.skills_match = 1000 <=> JobSkills \subseteq resume_file.skills

\* C2 amended: the equivalence holds when at least one job skill is
\* detected; when none is detected skills_match is 0.
C2_FullMatchIffAllPresentOfSome ==
    Scored =>
        /\ result.component_scores.skills_match \in 0..1000
        /\ JobSkills # {} =>
               (result.component_scores.skills_match = 1000 <=> JobSkills \subseteq resume_file.skills)
        /\ JobSkills = {} => result.component_scores.skills_match = 0

\* two detected job skills, both in the resume: 100
C2_Witness ==
    /\ pc = "scored"
    /\ Cardinality(JobSkills) = 2
    /\ JobSkills \subseteq resume_file.skills
    /\ result.component_scores.skills_match = 1000

\* the five emitted lists
SkillLists ==
    <<result.matched_skills.must_have, result.matched_skills.preferred,
      result.matched_skills.standard,
      result.missing_skills.must_have, result.missing_skills.preferred>>

\* how often skill s is listed in the list l
Occurrences(l, s) == Cardinality({i \in DOMAIN l : l[i] = s})

\* C3: every job skill is in exactly one of the five lists, except a missing
\* standard skill, which is in none; it is in the list of its own importance,
\* in a matched list exactly when the resume has it; the lists hold job
\* skills only; and skills_match is computed from the weight of the three
\* matched lists.
C3_SkillPartition ==
    Scored =>
        /\ \A i \in DOMAIN jd_text.skills :
             LET e == jd_text.skills[i]
                 has == e.skill \in resume_file.skills
                 total == SeqSum([k \in DOMAIN SkillLists |-> Occurrences(SkillLists[k], e.skill)])
             IN  /\ total = IF e.importance = "standard" /\ ~has THEN 0 ELSE 1
                 /\ has => Occurrences(result.matched_skills[e.importance], e.skill) = 1
                 /\ (~has /\ e.importance # "standard") =>
                        Occurrences(result.missing_skills[e.importance], e.skill) = 1
        /\ \A k \in DOMAIN SkillLists : Range(SkillLists[k]) \subseteq JobSkills
        /\ JobSkills # {} =>
             result.component_scores.skills_match =
                 Round1(Rat(100 * (20 * Len(result.matched_skills.must_have)
                                   + 15 * Len(result.matched_skills.preferred)
                                   + 10 * Len(result.matched_skills.standard)),
                            ClaimedWeightSum(JobSkills)))

\* python (must_have) matched, sql (standard) missing and in no list
C3_Witness ==
    /\ pc = "scored"
    /\ jd_text.skills = <<[skill |-> "sql", importance |-> "standard"],
                          [skill |-> "python", importance |-> "must_have"]>>
    /\ resume_file.skills = {"python", "docker"}
    /\ result.matched_skills.must_have = <<"python">>
    /\ \A k \in DOMAIN SkillLists : "sql" \notin Range(SkillLists[k])

\* C10: score_resume called with an empty jd_text fails and returns no
\* ScoreResult.
C10_EmptyJdRejected ==
    jd_text.is_empty => result = NoResult /\ pc \in {"idle", "error", "raised"}

----------------------------------------------------------------------------
\* Claims on generate_improvement_suggestions (checked under Spec)

Suggested == pc \in {"suggested", "displayed_success", "displayed_plan"}

Categories == [i \in DOMAIN suggestions |-> suggestions[i].category]

\* the rules 1-7 as C5 lists them: category, priority, condition
ClaimedRules ==
    << [category |-> "Critical Skills", priority |-> "High",
        holds |-> result.missing_skills.must_have # <<>>],
       [category |-> "Preferred Skills", priority |-> "Medium",
        holds |-> result.missing_skills.preferred # <<>>],
       [category |-> "Skills Alignment", priority |-> "High",
        holds |-> result.component_scores.skills_match < 500],
       [category |-> "Keywords", priority |-> "Medium",
        holds |-> result.component_scores.keyword_match < 400],
       [category |-> "Content Relevance", priority |-> "Medium",
        holds |-> result.component_scores.content_similarity < 300],
       [category |-> "Experience", priority |-> "High",
        holds |-> result.component_scores.experience_match < 500],
       [category |-> "Education", priority |-> "Medium",
        holds |-> result.component_scores.education_match < 500] >>

\* the categories of rules 1-7, in rule order
RuleNames ==
    <<"Critical Skills", "Preferred Skills", "Skills Alignment", "Keywords",
      "Content Relevance", "Experience", "Education">>

RuleCategories == Range(RuleNames)

RuleIndex(category) == CHOOSE k \in DOMAIN RuleNames : RuleNames[k] = category

SomeRuleFired == \E k \in DOMAIN ClaimedRules : ClaimedRules[k].holds

\* C4: with score < 40 the list holds a High "Overall Match" suggestion,
\* whatever else was produced, and it is the last element.
C4_OverallMatchLast ==
    (Suggested /\ result.score < 400) =>
        /\ suggestions # <<>>
        /\ suggestions[Len(suggestions)] = [category |-> "Overall Match", priority |-> "High"]
        /\ Occurrences(Categories, "Overall Match") = 1

\* a score below 40 with another High suggestion before "Overall Match"
C4_Witness ==
    /\ pc = "suggested"
    /\ result.score < 400
    /\ Len(suggestions) >= 2
    /\ suggestions[1] = [category |-> "Critical Skills", priority |-> "High"]
    /\ suggestions[Len(suggestions)].category = "Overall Match"

\* C5: each of rules 1-7 contributes exactly one suggestion, of its
\* priority, exactly when its own condition holds, and the suggestions of
\* rules 1-7 appear in rule order.
C5_RulesIndependentInOrder ==
    Suggested =>
        /\ \A k \in DOMAIN ClaimedRules :
             /\ Occurrences(Categories, ClaimedRules[k].category)
                    = IF ClaimedRules[k].holds THEN 1 ELSE 0
             /\ \A i \in DOMAIN suggestions :
                    suggestions[i].category = ClaimedRules[k].category
                        => suggestions[i].priority = ClaimedRules[k].priority
        /\ \A k \in DOMAIN ClaimedRules : ClaimedRules[k].category = RuleNames[k]
        /\ \A i, j \in DOMAIN suggestions :
             (i < j /\ suggestions[i].category \in RuleCategories
                    /\ suggestions[j].category \in RuleCategories) =>
                 RuleIndex(suggestions[i].category) < RuleIndex(suggestions[j].category)
        /\ \A i, j \in DOMAIN suggestions :
             (suggestions[i].category \in RuleCategories
                 /\ suggestions[j].category \notin RuleCategories) => i < j

\* all seven rules fire on one result
C5_Witness ==
    /\ pc = "suggested"
    /\ \A k \in DOMAIN ClaimedRules : ClaimedRules[k].holds
    /\ Len(suggestions) >= 7
    /\ suggestions[7].category = "Education"

\* C6: the two generic suggestions are appended, Low "Resume Format" then
\* Medium "Quantify Achievements", exactly when no rule 1-7 fired and the
\* score is below 85; the list is empty exactly when no rule 1-7 fired and
\* the score is at least 85 (the page then shows its success message); the
\* generic suggestions never accompany a rule 1-7 suggestion.
C6_GenericSuggestions ==
    Suggested =>
        LET generic == ~SomeRuleFired /\ result.score < 850
            at(c) == {i \in DOMAIN suggestions : suggestions[i].category = c}
        IN  /\ generic =>
                /\ Len(suggestions) >= 2
                /\ suggestions[1] = [category |-> "Resume Format", priority |-> "Low"]
                /\ suggestions[2] = [category |-> "Quantify Achievements", priority |-> "Medium"]
                /\ at("Resume Format") = {1}
                /\ at("Quantify Achievements") = {2}
            /\ ~generic => at("Resume Format") = {} /\ at("Quantify Achievements") = {}
            /\ suggestions = <<>> <=> (~SomeRuleFired /\ result.score >= 850)
            /\ (at("Resume Format") # {} \/ at("Quantify Achievements") # {}) =>
                   \A i \in DOMAIN suggestions : suggestions[i].category \notin RuleCategories
            /\ pc = "displayed_success" <=> (pc # "suggested" /\ suggestions = <<>>)

\* no rule 1-7 fired and the score is 71.0: the list is the two generic suggestions
C6_Witness ==
    /\ pc = "suggested"
    /\ ~SomeRuleFired
    /\ result.score = 710
    /\ suggestions = <<[category |-> "Resume Format", priority |-> "Low"],
                       [category |-> "Quantify Achievements", priority |-> "Medium"]>>

----------------------------------------------------------------------------
\* Claims on the education evaluator (checked under SpecEdu)

\* the score C7 describes
ClaimedEducationScore(edu, req) ==
    IF ~req.degree_required THEN 10
    ELSE IF edu.degrees = <<>> THEN 0
    ELSE IF req.degree_level = None THEN 8
    ELSE LET h == HighestDegree(edu.degrees)
             r == ReqLevelValue(req.degree_level)
         IN  IF h = 0 THEN 3
             ELSE IF h >= r THEN 10
             ELSE IF h = r - 1 THEN 7
             ELSE 3

\* C7: evaluate_education_match returns 1.0 when no degree is required, 0.0
\* when one is required and the resume lists none, 0.8 when no level is
\* specified, and otherwise 1.0 / 0.7 / 0.3 by the distance of the resume's
\* highest level from the required one, with 0.3 whenever no resume degree
\* matches a level of the scale, for every required level.
C7_EducationScoreAsClaimed ==
    pc = "edu_done" => edu_score = ClaimedEducationScore(resume_edu, jd_edu_req)

\* C8 as stated: for a fixed requirement, a resume whose highest detected
\* level (0 = no recognised level) is not above this resume's never scores
\* higher than this resume.
C8_MonotonicInHighestLevel ==
    pc = "edu_done" =>
        \A other \in ResumeEduInputs :
            HighestDegree(other.degrees) <= HighestDegree(resume_edu.degrees)
                => evaluate_education_match(other, jd_edu_req) <= edu_score

\* C8 amended: the same among resumes that list at least one degree phrase;
\* and a resume that lists no degree phrase never scores higher than any
\* other resume.
C8_MonotonicAmongListedDegrees ==
    pc = "edu_done" =>
        \A other \in ResumeEduInputs :
            /\ (/\ other.degrees # <<>>
                /\ resume_edu.degrees # <<>>
                /\ HighestDegree(other.degrees) <= HighestDegree(resume_edu.degrees))
                    => evaluate_education_match(other, jd_edu_req) <= edu_score
            /\ other.degrees = <<>>
                    => evaluate_education_match(other, jd_edu_req) <= edu_score

\* a phd resume scored 1.0 against a required phd, where a masters resume gets 0.7
C8_Witness ==
    /\ pc = "edu_done"
    /\ jd_edu_req = [degree_required |-> TRUE, degree_level |-> S_phd]
    /\ resume_edu.degrees = <<S_masters, S_phd>>
    /\ edu_score = 10
    /\ evaluate_education_match([degrees |-> <<S_masters>>], jd_edu_req) = 7

----------------------------------------------------------------------------
\* Claims on the experience evaluator (checked under SpecExp)

\* C9: evaluate_experience_match returns 0.5 when the resume duration is
\* unknown or the requirement list is empty; otherwise, with g the years of
\* the "general" requirement (0 if there is none), 1.0 when the resume years
\* reach g, 0.7 when they reach 0.7 * g, 0.4 below that, and 0.5 when g = 0.
\* The result is one of 0.4, 0.5, 0.7, 1.0.
C9_ExperienceScore ==
    pc = "exp_done" =>
        LET d == resume_exp.duration
            general == {i \in DOMAIN jd_requirements : jd_requirements[i][1] = "general"}
            g == IF general = {} THEN 0 ELSE jd_requirements[CHOOSE i \in general : TRUE][2]
        IN  /\ exp_score \in {4, 5, 7, 10}
            /\ (d \in {NoDuration, 0} \/ jd_requirements = <<>>) => exp_score = 5
            /\ (d \notin {NoDuration, 0} /\ jd_requirements # <<>>) =>
                   /\ (g > 0 /\ d >= 10 * g) => exp_score = 10
                   /\ (g > 0 /\ d < 10 * g /\ d >= 7 * g) => exp_score = 7
                   /\ (g > 0 /\ d < 7 * g) => exp_score = 4
                   /\ g = 0 => exp_score = 5

\* 2.1 years against a general requirement of 3 years is scored 0.7
C9_Witness ==
    /\ pc = "exp_done"
    /\ jd_requirements = << <<"general", 3>> >>
    /\ resume_exp.duration = 21
    /\ exp_score = 7

----------------------------------------------------------------------------
\* Two analyses end to end: the job texts are sequences of characters, and
\* the patterns of extract_education_requirements and the context test of
\* extract_experience_requirements are computed on them

\* is w found in text at index i (from 1)
StartsAt(w, text, i) ==
    /\ i + Len(w) - 1 <= Len(text)
    /\ \A j \in 1..Len(w) : text[i + j - 1] = w[j]

S_python == <<"p", "y", "t", "h", "o", "n">>

S_sql == <<"s", "q", "l">>

S_docker == <<"d", "o", "c", "k", "e", "r">>

\* the spelling of the vocabulary terms of ALL_SKILLS
SkillChars == [python |-> S_python, sql |-> S_sql, docker |-> S_docker]

\* degree_req_pattern, its alternatives written out ("s?" is one letter or none)
DegreeReqPhrases ==
    {<<"d", "e", "g", "r", "e", "e", " ", "r", "e", "q", "u", "i", "r", "e", "d">>,
     <<"b", "a", "c", "h", "e", "l", "o", "r", " ", "r", "e", "q", "u", "i", "r", "e", "d">>,
     <<"b", "a", "c", "h", "e", "l", "o", "r", "s", " ", "r", "e", "q", "u", "i", "r", "e", "d">>,
     <<"m", "a", "s", "t", "e", "r", " ", "r", "e", "q", "u", "i", "r", "e", "d">>,
     <<"m", "a", "s", "t", "e", "r", "s", " ", "r", "e", "q", "u", "i", "r", "e", "d">>,
     <<"p", "h", "d", " ", "r", "e", "q", "u", "i", "r", "e", "d">>}

\* degree_required: re.search(degree_req_pattern, jd_lower) found something
DegreeRequiredIn(jd_lower) == \E p \in DegreeReqPhrases : IsSubstring(p, jd_lower)

\* degree_level: the first match of degree_level_pattern, the leftmost word
\* of the pattern with its optional "'s"
DegreeLevelIn(jd_lower) ==
    LET words == {S_associate, S_bachelor, S_master, S_phd, S_doctorate}
        hits == {i \in 1..Len(jd_lower) : \E w \in words : StartsAt(w, jd_lower, i)}
    IN  IF hits = {} THEN None
        ELSE LET i == CHOOSE h \in hits : \A g \in hits : h <= g
                 w == CHOOSE v \in words : StartsAt(v, jd_lower, i)
                 genitive == w \o <<"'", "s">>
             IN  IF w \in {S_bachelor, S_master} /\ StartsAt(genitive, jd_lower, i)
                 THEN genitive ELSE w

\* jd_text[max(0, start - 50) : min(len(jd_text), end + 50)], lower-cased;
\* start and end are the offsets of a years match (from 0, end exclusive)
YearsContext(jd_lower, start, end) ==
    SubSeq(jd_lower,
           (IF start - 50 > 0 THEN start - 50 ELSE 0) + 1,
           IF end + 50 < Len(jd_lower) THEN end + 50 ELSE Len(jd_lower))

\* the vocabulary terms with "skill in context.lower()"
ContextSkills(context) ==
    {skill \in Range(ALL_SKILLS) : IsSubstring(SkillChars[skill], context)}

\* "Must have 3+ years python. Bachelor's required.", lower-cased
JdLower_PythonBachelor ==
    <<"m", "u", "s", "t", " ", "h", "a", "v", "e", " ", "3", "+", " ", "y",
      "e", "a", "r", "s", " ", "p", "y", "t", "h", "o", "n", ".", " ", "b",
      "a", "c", "h", "e", "l", "o", "r", "'", "s", " ", "r", "e", "q", "u",
      "i", "r", "e", "d", ".">>

\* "PhD in Computer Science, must have kubernetes", lower-cased
JdLower_PhdKubernetes ==
    <<"p", "h", "d", " ", "i", "n", " ", "c", "o", "m", "p", "u", "t", "e",
      "r", " ", "s", "c", "i", "e", "n", "c", "e", ",", " ", "m", "u", "s",
      "t", " ", "h", "a", "v", "e", " ", "k", "u", "b", "e", "r", "n", "e",
      "t", "e", "s">>

\* what score_resume's extractors find in the first job text: python next to
\* "must", the years match "3+ years" at offsets 10..18, the content tokens
Jd_PythonBachelor ==
    [is_empty |-> FALSE,
     has_terms |-> TRUE,
     skills |-> <<[skill |-> "python", importance |-> "must_have"]>>,
     years_matches |->
         <<[years |-> 3,
            context |-> ContextSkills(YearsContext(JdLower_PythonBachelor, 10, 18))]>>,
     degree_required |-> DegreeRequiredIn(JdLower_PythonBachelor),
     degree_level |-> DegreeLevelIn(JdLower_PythonBachelor),
     tokens |-> <<"years", "python", "bachelor", "required">>]

\* what they find in the second: kubernetes next to "must", no years match
Jd_PhdKubernetes ==
    [is_empty |-> FALSE,
     has_terms |-> TRUE,
     skills |-> <<[skill |-> "kubernetes", importance |-> "must_have"]>>,
     years_matches |-> <<>>,
     degree_required |-> DegreeRequiredIn(JdLower_PhdKubernetes),
     degree_level |-> DegreeLevelIn(JdLower_PhdKubernetes),
     tokens |-> <<"phd", "computer", "science", "kubernetes">>]

\* "bachelor's degree ", the match of extract_education's degree_pattern
S_bachelor_s_degree == <<"b", "a", "c", "h", "e", "l", "o", "r", "'", "s", " ", "d", "e", "g", "r", "e", "e", " ">>

\* resumes holding "5 years of python experience, Bachelor's degree in
\* Computer Science": as the only text (no experience header, duration 0),
\* and inside an experience section whose dates add up to 5.0 years
Resumes_PythonBachelor ==
    [text : {[has_terms |-> TRUE,
              counts |-> [years |-> 1, python |-> 1, bachelor |-> 1, required |-> 0]]},
     skills : {{"python"}},
     experience : {[duration |-> 0], [duration |-> 50]},
     education : {[degrees |-> <<S_bachelor_s_degree>>]}]

\* resumes without education section, degree phrase or "kubernetes"
Resumes_NoKubernetes ==
    [text : {[has_terms |-> TRUE,
              counts |-> [phd |-> 0, computer |-> 0, science |-> 0, kubernetes |-> 0]],
             [has_terms |-> TRUE,
              counts |-> [phd |-> 0, computer |-> 1, science |-> 1, kubernetes |-> 0]]},
     skills : {{}, {"python"}},
     experience : {[duration |-> 0], [duration |-> 30]},
     education : {[degrees |-> <<>>]}]

\* the cosine similarity of two texts is anything from 0 to 1
ScenarioSimilarities == {50 * k : k \in 0..20}

InitScenario ==
    /\ \/ resume_file \in Resumes_PythonBachelor /\ jd_text = Jd_PythonBachelor
       \/ resume_file \in Resumes_NoKubernetes /\ jd_text = Jd_PhdKubernetes
    /\ tfidf_similarity \in ScenarioSimilarities
    /\ pc = "idle"
    /\ result = NoResult
    /\ suggestions = <<>>
    /\ resume_edu = [degrees |-> <<>>]
    /\ jd_edu_req = [degree_required |-> FALSE, degree_level |-> None]
    /\ edu_score = NotRun
    /\ resume_exp = [duration |-> NoDuration]
    /\ years_matches = <<>>
    /\ jd_requirements = <<>>
    /\ exp_score = NotRun
    /\ extractor_input = <<>>
    /\ extractor_output = NotRun
    /\ sessions = <<>>
    /\ module_globals = ImportedGlobals

SpecScenario == InitScenario /\ [][Next]_vars

\* the suggestions have been generated
SuggestionsMade == pc \in {"suggested", "displayed_success", "displayed_plan"}

\* C11: the resume "5 years of python experience, Bachelor's degree in
\* Computer Science" against the job "Must have 3+ years python. Bachelor's
\* required." gets skills_match 100 with python matched as must_have,
\* education_match 100, experience_match 100, a final score of at least 90,
\* and none of the rules 1-7 fires
C11_PythonBachelorScenario ==
    (Scored /\ jd_text = Jd_PythonBachelor) =>
        /\ result.component_scores.skills_match = 1000
        /\ result.matched_skills.must_have = <<"python">>
        /\ result.component_scores.education_match = 1000
        /\ result.component_scores.experience_match = 1000
        /\ result.score >= 900
        /\ ComponentRules(result) = <<>>

\* C12: the job "PhD in Computer Science, must have kubernetes" against a
\* resume without education section and without kubernetes gets
\* education_match 0, missing must_have ["kubernetes"], a High "Critical
\* Skills" suggestion, a final score below 40 and a High "Overall Match"
\* suggestion
C12_PhdKubernetesScenario ==
    (Scored /\ jd_text = Jd_PhdKubernetes) =>
        /\ result.component_scores.education_match = 0
        /\ result.missing_skills.must_have = <<"kubernetes">>
        /\ result.score < 400
        /\ SuggestionsMade =>
               /\ Suggestion("Critical Skills", "High") \in Range(suggestions)
               /\ Suggestion("Overall Match", "High") \in Range(suggestions)

----------------------------------------------------------------------------
\* Resume skill extractor (resume_parser.py, extract_skills), run on texts
\* that are sequences of characters

MaxTextLen == 5   \* characters of a resume text

\* the characters of the texts: enough to spell two vocabulary terms alone,
\* inside a longer word and in capitals
TextAlphabet == {"c", "C", "+", "g", "o", "1", " "}

TextInputs == SeqsUpTo(TextAlphabet, MaxTextLen)

S_go == <<"g", "o">>

S_cpp == <<"c", "+", "+">>

\* two terms of ALL_SKILLS, as spelled
SkillTerms == {S_go, S_cpp}

\* str.lower() on the characters of the texts
LowerChar(ch) == IF ch = "C" THEN "c" ELSE ch

Lower(text) == [i \in DOMAIN text |-> LowerChar(text[i])]

\* \w of the re module: letters, digits and the underscore
WordChars ==
    {"a", "b", "c", "d", "e", "f", "g", "h", "i", "j", "k", "l", "m", "n", "o",
     "p", "q", "r", "s", "t", "u", "v", "w", "x", "y", "z", "_",
     "0", "1", "2", "3", "4", "5", "6", "7", "8", "9"}

IsWordCharAt(text, i) == i \in DOMAIN text /\ text[i] \in WordChars

\* \b between the characters i and i + 1 (0 is the start, Len(text) the end)
WordBoundary(text, i) == IsWordCharAt(text, i) # IsWordCharAt(text, i + 1)

\* re.search(r'\b' + re.escape(skill) + r'\b', text)
RegexFindsSkill(skill, text) ==
    \E i \in 1..Len(text) :
        /\ StartsAt(skill, text, i)
        /\ WordBoundary(text, i - 1)
        /\ WordBoundary(text, i + Len(skill) - 1)

\* the phrase matcher compares tokens: of these characters the tokenizer
\* splits a text at the blanks only (and a final "+" off a digit, which
\* yields no term), and both terms are one token
PhraseMatcherFinds(skill, text) ==
    \E i \in 1..Len(text) :
        /\ StartsAt(skill, text, i)
        /\ i = 1 \/ text[i - 1] = " "
        /\ i + Len(skill) - 1 = Len(text) \/ text[i + Len(skill)] = " "

\* skills_found of extract_skills: the spans of the phrase matcher and the
\* terms the regular expression finds, both on text.lower()
extract_skills(text) ==
    {skill \in SkillTerms :
        PhraseMatcherFinds(skill, Lower(text)) \/ RegexFindsSkill(skill, Lower(text))}

InitSkills ==
    /\ extractor_input \in TextInputs
    /\ extractor_output = NotRun
    /\ pc = "skills_idle"
    /\ resume_file = NoFile /\ jd_text = NoFile /\ tfidf_similarity = 0
    /\ result = NoResult /\ suggestions = <<>>
    /\ resume_edu = [degrees |-> <<>>]
    /\ jd_edu_req = [degree_required |-> FALSE, degree_level |-> None]
    /\ edu_score = NotRun
    /\ resume_exp = [duration |-> NoDuration] /\ years_matches = <<>>
    /\ jd_requirements = <<>> /\ exp_score = NotRun
    /\ sessions = <<>>
    /\ module_globals = ImportedGlobals

ExtractSkills ==
    /\ pc = "skills_idle"
    /\ extractor_output' = extract_skills(extractor_input)
    /\ pc' = "skills_done"
    /\ UNCHANGED <<resume_file, jd_text, tfidf_similarity, result, suggestions,
                   resume_edu, jd_edu_req, edu_score,
                   resume_exp, years_matches, jd_requirements, exp_score,
                   extractor_input,
                   sessions, module_globals>>

SpecSkills == InitSkills /\ [][ExtractSkills]_vars

\* the places of the term in the text, whatever the case
Occurs(skill, text) == {i \in 1..Len(text) : StartsAt(skill, Lower(text), i)}

\* the occurrence at i stands alone: blanks or the text's ends around it
Standalone(skill, text, i) ==
    /\ i = 1 \/ text[i - 1] = " "
    /\ i + Len(skill) - 1 = Len(text) \/ text[i + Len(skill)] = " "

\* the occurrence at i is part of a longer word: a letter or a digit
\* touches it
InsideLongerWord(skill, text, i) ==
    \/ i > 1 /\ Lower(text)[i - 1] \in WordChars \ {"_"}
    \/ i + Len(skill) <= Len(text) /\ Lower(text)[i + Len(skill)] \in WordChars \ {"_"}

\* C13: a vocabulary term that stands alone somewhere in the text is in the
\* extracted skill set, and a term that occurs only inside longer words is
\* not, for every term, "c++" included
C13_WholeWordSkills ==
    pc = "skills_done" =>
        \A skill \in SkillTerms :
            /\ (\E i \in Occurs(skill, extractor_input) : Standalone(skill, extractor_input, i))
                   => skill \in extractor_output
            /\ (/\ Occurs(skill, extractor_input) # {}
                /\ \A i \in Occurs(skill, extractor_input) :
                       InsideLongerWord(skill, extractor_input, i))
                   => skill \notin extractor_output

----------------------------------------------------------------------------
\* Keyword frequency analyser run on its own, on job texts with more content
\* words than most_common(20) keeps

MaxDistinctTokens == 22   \* distinct content words of a job description

\* the content tokens of a job text whose words, numbered in the order of
\* their first occurrence, are 1 .. n, the word again being said once more
\* at the end (again = 0: no word is repeated)
JobTokens(n, again) == [i \in 1..n |-> i] \o (IF again = 0 THEN <<>> ELSE <<again>>)

\* a resume text that holds the words 1 .. upto, each once
ResumeTextWith(n, upto) ==
    [has_terms |-> TRUE, counts |-> [w \in 1..n |-> IF w <= upto THEN 1 ELSE 0]]

KeywordInputs ==
    {[resume_text |-> ResumeTextWith(n, upto), jd |-> [tokens |-> JobTokens(n, again)]] :
        n \in 0..MaxDistinctTokens, again \in 0..MaxDistinctTokens, upto \in 0..MaxDistinctTokens}

InitKeywords ==
    /\ extractor_input \in
           {x \in KeywordInputs :
               \A i \in DOMAIN x.jd.tokens : x.jd.tokens[i] \in DOMAIN x.resume_text.counts}
    /\ extractor_output = NotRun
    /\ pc = "keywords_idle"
    /\ resume_file = NoFile /\ jd_text = NoFile /\ tfidf_similarity = 0
    /\ result = NoResult /\ suggestions = <<>>
    /\ resume_edu = [degrees |-> <<>>]
    /\ jd_edu_req = [degree_required |-> FALSE, degree_level |-> None]
    /\ edu_score = NotRun
    /\ resume_exp = [duration |-> NoDuration] /\ years_matches = <<>>
    /\ jd_requirements = <<>> /\ exp_score = NotRun
    /\ sessions = <<>>
    /\ module_globals = ImportedGlobals

CalculateKeywordFrequency ==
    /\ pc = "keywords_idle"
    /\ extractor_output' =
           calculate_keyword_frequency(extractor_input.resume_text, extractor_input.jd)
    /\ pc' = "keywords_done"
    /\ UNCHANGED <<resume_file, jd_text, tfidf_similarity, result, suggestions,
                   resume_edu, jd_edu_req, edu_score,
                   resume_exp, years_matches, jd_requirements, exp_score,
                   extractor_input,
                   sessions, module_globals>>

SpecKeywords == InitKeywords /\ [][CalculateKeywordFrequency]_vars

\* Claims on the keyword analyser (checked under SpecKeywords)

\* a comes before b in the ranking: more frequent, or as frequent and met first
RankedBefore(tokens, a, b) ==
    \/ Count(tokens, a) > Count(tokens, b)
    \/ /\ Count(tokens, a) = Count(tokens, b)
       /\ FirstIndex(tokens, a) < FirstIndex(tokens, b)

\* top_keywords is the beginning of the ranking of the distinct job tokens,
\* 20 of them at most
TopKeywordsRanked ==
    LET tokens == extractor_input.jd.tokens
        top == extractor_output.top_keywords
        distinct == Cardinality(Range(tokens))
    IN  /\ Len(top) = IF distinct < TopKeywordCount THEN distinct ELSE TopKeywordCount
        /\ Range(top) \subseteq Range(tokens)
        /\ \A i, j \in DOMAIN top :
               i < j => top[i] # top[j] /\ RankedBefore(tokens, top[i], top[j])
        /\ \A w \in Range(tokens) \ Range(top) :
               \A i \in DOMAIN top : RankedBefore(tokens, top[i], w)

\* the top keywords the resume holds
KeywordsFound ==
    Cardinality({w \in Range(extractor_output.top_keywords) :
                    extractor_input.resume_text.counts[w] > 0})

\* C14 as stated: top_keywords are at most 20 distinct job tokens by
\* descending frequency, ties in the order first met; coverage is the number
\* of top keywords found in the resume divided by 20, 0 without top
\* keywords, and lies in [0, 1]
C14_CoverageOverTwenty ==
    pc = "keywords_done" =>
        /\ TopKeywordsRanked
        /\ extractor_output.keyword_coverage =
               IF extractor_output.top_keywords = <<>> THEN Rat(0, 1)
               ELSE Rat(KeywordsFound, TopKeywordCount)
        /\ extractor_output.keyword_coverage.n >= 0
        /\ extractor_output.keyword_coverage.n <= extractor_output.keyword_coverage.d

\* C14, amended: the same ranking, and coverage is the number of top
\* keywords found in the resume divided by the number of top keywords
\* (which is 20 only when the job text has 20 distinct tokens or more), 0
\* without top keywords; it lies in [0, 1]
C14_CoverageOverTopKeywords ==
    pc = "keywords_done" =>
        /\ TopKeywordsRanked
        /\ extractor_output.keyword_coverage =
               IF extractor_output.top_keywords = <<>> THEN Rat(0, 1)
               ELSE Rat(KeywordsFound, Len(extractor_output.top_keywords))
        /\ extractor_output.keyword_coverage.n >= 0
        /\ extractor_output.keyword_coverage.n <= extractor_output.keyword_coverage.d

\* four distinct tokens, the third said twice, three of them in the resume:
\* coverage 3/4
C14_Witness ==
    /\ pc = "keywords_done"
    /\ extractor_input.jd.tokens = <<1, 2, 3, 4, 3>>
    /\ extractor_output.top_keywords = <<3, 1, 2, 4>>
    /\ KeywordsFound = 3
    /\ extractor_output.keyword_coverage = Rat(3, 4)

----------------------------------------------------------------------------
\* Several analyses at once.  Every browser session runs home_page in a
\* thread of its own; the threads share the objects of the imported modules
\* (ALL_SKILLS, KEYWORD_WEIGHTS and the nlp model of job_matcher.py) and
\* nothing else.  score_resume is cut where it has extracted the job's
\* requirements, so that the sessions interleave inside it as well.

NumSessions == 2   \* sessions running at once

SessionResumes ==
    [text : ResumeTextInputs,
     skills : {{"python"}, {"python", "sql"}},
     experience : {[duration |-> 30]},
     education : {[degrees |-> <<>>]}]

SessionJds ==
    [is_empty : {FALSE},
     has_terms : {TRUE},
     skills : {<<[skill |-> "python", importance |-> "must_have"],
                 [skill |-> "sql", importance |-> "preferred"]>>},
     years_matches : {<<[years |-> 3, context |-> {}]>>,
                      <<[years |-> 3, context |-> {"sql", "python"}]>>},
     degree_required : {FALSE},
     degree_level : {None},
     tokens : {<<"cloud">>}]

\* a session before its Analyze button is pressed
NewSession(resume_data, jd) ==
    [resume_data |-> resume_data,
     jd |-> jd,
     similarity |-> 250,
     pc |-> "idle",
     jd_exp_requirements |-> <<>>,
     result |-> NoResult,
     suggestions |-> <<>>]

InitSessions ==
    /\ sessions \in [1..NumSessions -> {NewSession(r, j) : r \in SessionResumes, j \in SessionJds}]
    /\ module_globals = ImportedGlobals
    /\ pc = "sessions"
    /\ resume_file = NoFile /\ jd_text = NoFile /\ tfidf_similarity = 0
    /\ result = NoResult /\ suggestions = <<>>
    /\ resume_edu = [degrees |-> <<>>]
    /\ jd_edu_req = [degree_required |-> FALSE, degree_level |-> None]
    /\ edu_score = NotRun
    /\ resume_exp = [duration |-> NoDuration] /\ years_matches = <<>>
    /\ jd_requirements = <<>> /\ exp_score = NotRun
    /\ extractor_input = <<>> /\ extractor_output = NotRun

\* score_resume up to extract_experience_requirements: extract_jd_skills
\* (nlp, ALL_SKILLS) and the loop over ALL_SKILLS, which is only read
SessionExtractRequirements_consuming(i) ==
    /\ sessions[i].pc = "idle"
    /\ LET found == extract_experience_requirements_over(module_globals.ALL_SKILLS,
                                                         sessions[i].jd.years_matches)
       IN  /\ sessions' = [sessions EXCEPT ![i].pc = "extracted",
                                           ![i].jd_exp_requirements = found]
           /\ module_globals' =
                  [ALL_SKILLS |->
                       SelectSeqBy(module_globals.ALL_SKILLS,
                                   {k \in DOMAIN module_globals.ALL_SKILLS :
                                       \A q \in DOMAIN found : found[q][1] # module_globals.ALL_SKILLS[k]}),
                   used |-> module_globals.used \cup {"nlp", "ALL_SKILLS"}]
    /\ UNCHANGED <<resume_file, jd_text, tfidf_similarity, pc, result, suggestions,
                   resume_edu, jd_edu_req, edu_score,
                   resume_exp, years_matches, jd_requirements, exp_score,
                   extractor_input, extractor_output>>

SessionExtractRequirements(i) ==
    /\ sessions[i].pc = "idle"
    /\ sessions' =
           [sessions EXCEPT
               ![i].pc = "extracted",
               ![i].jd_exp_requirements =
                   extract_experience_requirements_over(module_globals.ALL_SKILLS,
                                                        sessions[i].jd.years_matches)]
    /\ module_globals' =
           [module_globals EXCEPT !.used = module_globals.used \cup {"nlp", "ALL_SKILLS"}]
    /\ UNCHANGED <<resume_file, jd_text, tfidf_similarity, pc, result, suggestions,
                   resume_edu, jd_edu_req, edu_score,
                   resume_exp, years_matches, jd_requirements, exp_score,
                   extractor_input, extractor_output>>

\* the rest of score_resume: the weighting loop reads KEYWORD_WEIGHTS, the
\* keyword analyser calls nlp
SessionScore(i) ==
    /\ sessions[i].pc = "extracted"
    /\ sessions' =
           [sessions EXCEPT
               ![i].pc = "scored",
               ![i].result = score_resume_from(sessions[i].resume_data, sessions[i].jd,
                                               sessions[i].similarity,
                                               sessions[i].jd_exp_requirements)]
    /\ module_globals' =
           [module_globals EXCEPT !.used = module_globals.used \cup {"nlp", "KEYWORD_WEIGHTS"}]
    /\ UNCHANGED <<resume_file, jd_text, tfidf_similarity, pc, result, suggestions,
                   resume_edu, jd_edu_req, edu_score,
                   resume_exp, years_matches, jd_requirements, exp_score,
                   extractor_input, extractor_output>>

\* generate_improvement_suggestions reads its argument only
SessionSuggest(i) ==
    /\ sessions[i].pc = "scored"
    /\ sessions' =
           [sessions EXCEPT
               ![i].pc = "suggested",
               ![i].suggestions = generate_improvement_suggestions(sessions[i].result)]
    /\ UNCHANGED <<resume_file, jd_text, tfidf_similarity, pc, result, suggestions,
                   resume_edu, jd_edu_req, edu_score,
                   resume_exp, years_matches, jd_requirements, exp_score,
                   extractor_input, extractor_output, module_globals>>

NextSessions ==
    \E i \in 1..NumSessions :
        SessionExtractRequirements(i) \/ SessionScore(i) \/ SessionSuggest(i)

SpecSessions == InitSessions /\ [][NextSessions]_vars

\* what session i gets when it is the only one
AloneResult(i) ==
    score_resume(sessions[i].resume_data, sessions[i].jd, sessions[i].similarity)

\* session i has what it would have alone
Isolated(i) ==
    /\ sessions[i].pc \in {"scored", "suggested"} => sessions[i].result = AloneResult(i)
    /\ sessions[i].pc = "suggested" =>
           sessions[i].suggestions = generate_improvement_suggestions(AloneResult(i))

\* a step leaves every session's inputs as they were, and a ScoreResult
\* once returned as well
InputsKept ==
    \A i \in 1..NumSessions :
        /\ sessions'[i].resume_data = sessions[i].resume_data
        /\ sessions'[i].jd = sessions[i].jd
        /\ sessions[i].pc \in {"scored", "suggested"} => sessions'[i].result = sessions[i].result

----------------------------------------------------------------------------
\* Job skill extractor (job_matcher.py, extract_jd_skills).  The cleaned
\* job text is given by what the two passes find in it: the matches of the
\* phrase matcher in document order, each with the marker words its window
\* of 10 tokens either side contains, and for every vocabulary term whether
\* the word-delimited pattern finds it, with the marker words of the
\* 50-character window re.search returns.

MaxPhraseMatches == 2   \* matches of the phrase matcher in a job text

\* the marker words of the two lists
MustMarkers == {"must", "required", "essential", "necessary"}

PreferredMarkers == {"preferred", "nice to have", "plus", "desirable"}

ClassifyContext_preferred_first(context) ==
    IF context \cap PreferredMarkers # {} THEN "preferred"
    ELSE IF context \cap MustMarkers # {} THEN "must_have"
    ELSE "standard"

\* if any(req in context ...) / elif any(pref in context ...) / else
ClassifyContext(context) ==
    IF context \cap MustMarkers # {} THEN "must_have"
    ELSE IF context \cap PreferredMarkers # {} THEN "preferred"
    ELSE "standard"

\* the marker words a window can hold (two of them, one of each list)
ContextInputs == SUBSET {"must", "plus"}

PhraseMatchInputs ==
    SeqsUpTo([skill : Range(ALL_SKILLS), context : ContextInputs], MaxPhraseMatches)

RegexHitInputs ==
    [Range(ALL_SKILLS) ->
        {[found |-> FALSE, context |-> {}]} \cup [found : {TRUE}, context : ContextInputs]]

\* the keys of the dict, given as the sequence of its items
Keys(dict) == {dict[i].skill : i \in DOMAIN dict}

SetItem_if_absent(dict, skill, importance) ==
    IF skill \in Keys(dict)
    THEN dict
    ELSE Append(dict, [skill |-> skill, importance |-> importance])

\* skills_found[skill] = importance: a key that is there keeps its place
\* and takes the new value
SetItem(dict, skill, importance) ==
    IF skill \in Keys(dict)
    THEN [i \in DOMAIN dict |->
             IF dict[i].skill = skill
             THEN [skill |-> skill, importance |-> importance]
             ELSE dict[i]]
    ELSE Append(dict, [skill |-> skill, importance |-> importance])

\* the loop over the matches of the phrase matcher
RECURSIVE PhrasePass(_, _)
PhrasePass(skills_found, matches) ==
    IF matches = <<>> THEN skills_found
    ELSE PhrasePass(SetItem(skills_found, Head(matches).skill,
                            ClassifyContext(Head(matches).context)),
                    Tail(matches))

\* the loop "for skill in ALL_SKILLS: if skill not in skills_found and
\* re.search(...)", from the k-th term on
RECURSIVE RegexPass(_, _, _)
RegexPass(skills_found, regex_hits, k) ==
    IF k > Len(ALL_SKILLS) THEN skills_found
    ELSE LET skill == ALL_SKILLS[k]
         IN  IF skill \notin Keys(skills_found) /\ regex_hits[skill].found
             THEN RegexPass(SetItem(skills_found, skill,
                                    ClassifyContext(regex_hits[skill].context)),
                            regex_hits, k + 1)
             ELSE RegexPass(skills_found, regex_hits, k + 1)

extract_jd_skills(jd_clean) ==
    RegexPass(PhrasePass(<<>>, jd_clean.phrase_matches), jd_clean.regex_hits, 1)

InitJdSkills ==
    /\ extractor_input \in [phrase_matches : PhraseMatchInputs, regex_hits : RegexHitInputs]
    /\ extractor_output = NotRun
    /\ pc = "jd_skills_idle"
    /\ resume_file = NoFile /\ jd_text = NoFile /\ tfidf_similarity = 0
    /\ result = NoResult /\ suggestions = <<>>
    /\ resume_edu = [degrees |-> <<>>]
    /\ jd_edu_req = [degree_required |-> FALSE, degree_level |-> None]
    /\ edu_score = NotRun
    /\ resume_exp = [duration |-> NoDuration] /\ years_matches = <<>>
    /\ jd_requirements = <<>> /\ exp_score = NotRun
    /\ sessions = <<>>
    /\ module_globals = ImportedGlobals

ExtractJdSkills ==
    /\ pc = "jd_skills_idle"
    /\ extractor_output' = extract_jd_skills(extractor_input)
    /\ pc' = "jd_skills_done"
    /\ UNCHANGED <<resume_file, jd_text, tfidf_similarity, result, suggestions,
                   resume_edu, jd_edu_req, edu_score,
                   resume_exp, years_matches, jd_requirements, exp_score,
                   extractor_input, sessions, module_globals>>

SpecJdSkills == InitJdSkills /\ [][ExtractJdSkills]_vars

\* Claims on extract_jd_skills (checked under SpecJdSkills)

\* the places of the skill among the matches of the phrase matcher
MatchesOf(skill) ==
    {i \in DOMAIN extractor_input.phrase_matches :
        extractor_input.phrase_matches[i].skill = skill}

FirstMatchOf(skill) == CHOOSE i \in MatchesOf(skill) : \A j \in MatchesOf(skill) : i <= j

LastMatchOf(skill) == CHOOSE i \in MatchesOf(skill) : \A j \in MatchesOf(skill) : i >= j

\* the skills either pass detects
Detected ==
    {skill \in Range(ALL_SKILLS) :
        MatchesOf(skill) # {} \/ extractor_input.regex_hits[skill].found}

\* every detected skill, and nothing else, has one tag in the dict
OneTagEach ==
    /\ Keys(extractor_output) = Detected
    /\ \A i, j \in DOMAIN extractor_output :
           extractor_output[i].skill = extractor_output[j].skill => i = j

\* the tag of a skill in the dict
TagOf(skill) ==
    extractor_output[CHOOSE i \in DOMAIN extractor_output : extractor_output[i].skill = skill].importance

\* a skill the phrase matcher missed has the tag of the regular expression's window
RegexTagged ==
    \A skill \in Detected :
        MatchesOf(skill) = {} =>
            TagOf(skill) = ClassifyContext(extractor_input.regex_hits[skill].context)

----------------------------------------------------------------------------
\* Section segmenter (resume_parser.py, extract_sections and
\* find_section_start).  A resume text is given by the places where the
\* header pattern of a section kind matches, and by its length; a section
\* text[start:end] is the pair <<start, end>>.

MaxHeaderPos == 3   \* the last place of a resume text where a header can match

\* the kinds in the order of the lists of extract_sections
SectionKinds == <<"education", "experience", "skills", "projects">>

\* which kind's header pattern matches at each place, if any
HeaderInputs == [0..MaxHeaderPos -> Range(SectionKinds) \cup {"none"}]

\* min(positions) if positions else -1
find_section_start(headers, kind) ==
    LET positions == {p \in DOMAIN headers : headers[p] = kind}
    IN  IF positions = {} THEN 0 - 1
        ELSE CHOOSE p \in positions : \A q \in positions : p <= q

\* sorted(...) of a set of numbers
RECURSIVE Sorted(_)
Sorted(S) ==
    IF S = {} THEN <<>>
    ELSE LET least == CHOOSE x \in S : \A y \in S : x <= y
         IN  <<least>> \o Sorted(S \ {least})

\* the dict sections: the i-th found kind, in the order of the list of
\* names, gets the span from the i-th sorted start to the next one
extract_sections(text) ==
    LET starts == [k \in DOMAIN SectionKinds |-> find_section_start(text.headers, SectionKinds[k])]
        all_starts == Sorted({starts[k] : k \in {j \in DOMAIN starts : starts[j] > 0 - 1}})
        names == SelectSeqBy(SectionKinds, {k \in DOMAIN starts : starts[k] > 0 - 1})
    IN  [section_name \in Range(names) |->
            LET i == CHOOSE j \in DOMAIN names : names[j] = section_name
            IN  <<all_starts[i],
                  IF i + 1 <= Len(all_starts) THEN all_starts[i + 1] ELSE text.length>>]

InitSections ==
    /\ extractor_input \in [headers : HeaderInputs, length : {MaxHeaderPos + 2}]
    /\ extractor_output = NotRun
    /\ pc = "sections_idle"
    /\ resume_file = NoFile /\ jd_text = NoFile /\ tfidf_similarity = 0
    /\ result = NoResult /\ suggestions = <<>>
    /\ resume_edu = [degrees |-> <<>>]
    /\ jd_edu_req = [degree_required |-> FALSE, degree_level |-> None]
    /\ edu_score = NotRun
    /\ resume_exp = [duration |-> NoDuration] /\ years_matches = <<>>
    /\ jd_requirements = <<>> /\ exp_score = NotRun
    /\ sessions = <<>>
    /\ module_globals = ImportedGlobals

ExtractSections ==
    /\ pc = "sections_idle"
    /\ extractor_output' = extract_sections(extractor_input)
    /\ pc' = "sections_done"
    /\ UNCHANGED <<resume_file, jd_text, tfidf_similarity, result, suggestions,
                   resume_edu, jd_edu_req, edu_score,
                   resume_exp, years_matches, jd_requirements, exp_score,
                   extractor_input, sessions, module_globals>>

SpecSections == InitSections /\ [][ExtractSections]_vars

\* Claims on extract_sections (checked under SpecSections)

\* the kinds with a header in the text
FoundKinds == {extractor_input.headers[p] : p \in DOMAIN extractor_input.headers} \ {"none"}

\* the earliest header of the kind
EarliestHeader(kind) ==
    CHOOSE p \in DOMAIN extractor_input.headers :
        /\ extractor_input.headers[p] = kind
        /\ \A q \in DOMAIN extractor_input.headers :
               extractor_input.headers[q] = kind => p <= q

\* the earliest header of another found kind after the kind's own, or the
\* end of the text
NextHeader(kind) ==
    LET later == {EarliestHeader(other) : other \in FoundKinds \ {kind}}
                     \cap {p \in DOMAIN extractor_input.headers : p > EarliestHeader(kind)}
    IN  IF later = {} THEN extractor_input.length
        ELSE CHOOSE p \in later : \A q \in later : p <= q

\* C18: whatever the order of the headers, the span of every found kind
\* starts at that kind's own earliest header and ends at the next-earliest
\* header among the other found kinds, or at the end of the text; kinds
\* without header are left out
C18_SectionsLabelled ==
    pc = "sections_done" =>
        /\ DOMAIN extractor_output = FoundKinds
        /\ \A kind \in FoundKinds :
               extractor_output[kind] = <<EarliestHeader(kind), NextHeader(kind)>>

----------------------------------------------------------------------------
\* Claims on extract_experience_requirements (checked under SpecExp)

\* the requirements have been extracted
Extracted == pc \in {"exp_extracted", "exp_done"}

\* how often the pair occurs in the list of requirements
PairCount(pair) == Cardinality({i \in DOMAIN jd_requirements : jd_requirements[i] = pair})

\* the years matches that have the skill in their context and give these years
MatchesNaming(skill, years) ==
    {i \in DOMAIN years_matches :
        skill \in years_matches[i].context /\ years_matches[i].years = years}

\* the entries tagged "general"
GeneralEntries == {i \in DOMAIN jd_requirements : jd_requirements[i][1] = "general"}

\* C19: the list holds one (skill, years) pair for every years match and
\* every vocabulary skill in its window of 50 characters either side,
\* repeated pairs included; it holds a ("general", years) pair only when no
\* skill-tagged pair was found anywhere, and then this pair alone, with the
\* years of the first match; so it never holds both kinds and never more
\* than one general pair
C19_ExperienceRequirements ==
    Extracted =>
        /\ \A i \in DOMAIN years_matches : \A skill \in years_matches[i].context :
               PairCount(<<skill, years_matches[i].years>>) =
                   Cardinality(MatchesNaming(skill, years_matches[i].years))
        /\ \A i \in DOMAIN jd_requirements :
               jd_requirements[i][1] # "general" =>
                   MatchesNaming(jd_requirements[i][1], jd_requirements[i][2]) # {}
        /\ Cardinality(GeneralEntries) <= 1
        /\ GeneralEntries # {} <=>
               /\ years_matches # <<>>
               /\ \A i \in DOMAIN years_matches : years_matches[i].context = {}
        /\ GeneralEntries # {} =>
               jd_requirements = << <<"general", years_matches[1].years>> >>

\* two years matches of 3 years, python and sql near the first, python
\* near the second: python is listed twice, no general pair
C19_Witness ==
    /\ pc = "exp_extracted"
    /\ years_matches = <<[years |-> 3, context |-> {"python", "sql"}],
                         [years |-> 3, context |-> {"python"}]>>
    /\ jd_requirements = << <<"python", 3>>, <<"sql", 3>>, <<"python", 3>> >>

----------------------------------------------------------------------------
\* Experience duration (resume_parser.py, extract_experience).  The
\* experience section is given by the date tokens date_pattern finds in it,
\* in document order; a token is the day number dateutil's parser gives it,
\* or Unparsable when the parser raises ("Marketing 2020" starts like a
\* month).

MaxDates == 4   \* date tokens of an experience section

\* parser.parse raises
Unparsable == 0 - 1

\* day numbers of the dates of a resume: the same day, ten days, one year
\* and three and four years later
DateTokens == {Unparsable, 0, 10, 365, 1096, 1461}

\* the experience section: none (sections.get returns ''), or its dates
ExperienceSectionInputs ==
    {[found |-> FALSE, dates |-> <<>>]} \cup [found : {TRUE}, dates : SeqsUpTo(DateTokens, MaxDates)]

RECURSIVE PairDays_stop_at_failure(_)
PairDays_stop_at_failure(dates) ==
    IF Len(dates) < 2 THEN 0
    ELSE IF dates[1] = Unparsable \/ dates[2] = Unparsable THEN 0
    ELSE (dates[2] - dates[1]) + PairDays_stop_at_failure(SubSeq(dates, 3, Len(dates)))

\* the loop over date_pairs: the days (end - start).days of the pairs
\* (dates[0], dates[1]), (dates[2], dates[3]), ... added up; a pair whose
\* parsing raises is passed over by the inner except
RECURSIVE PairDays(_)
PairDays(dates) ==
    IF Len(dates) < 2 THEN 0
    ELSE (IF dates[1] = Unparsable \/ dates[2] = Unparsable THEN 0 ELSE dates[2] - dates[1])
         + PairDays(SubSeq(dates, 3, Len(dates)))

\* days / 365.25, as a rational number of years
YearsOfDays(days) == Rat(days * 100, 36525)

\* the duration extract_experience returns, in tenths of a year
extract_experience(section) ==
    IF ~section.found THEN [duration |-> 0]
    ELSE LET total_exp_days == PairDays(section.dates)
         IN  [duration |-> IF total_exp_days > 0
                           THEN Round1(YearsOfDays(total_exp_days))
                           ELSE NoDuration]

InitDuration ==
    /\ extractor_input \in ExperienceSectionInputs
    /\ extractor_output = NotRun
    /\ pc = "duration_idle"
    /\ resume_file = NoFile /\ jd_text = NoFile /\ tfidf_similarity = 0
    /\ result = NoResult /\ suggestions = <<>>
    /\ resume_edu = [degrees |-> <<>>]
    /\ jd_edu_req = [degree_required |-> FALSE, degree_level |-> None]
    /\ edu_score = NotRun
    /\ resume_exp = [duration |-> NoDuration] /\ years_matches = <<>>
    /\ jd_requirements = <<>> /\ exp_score = NotRun
    /\ sessions = <<>>
    /\ module_globals = ImportedGlobals

ExtractExperience ==
    /\ pc = "duration_idle"
    /\ extractor_output' = extract_experience(extractor_input)
    /\ pc' = "duration_done"
    /\ UNCHANGED <<resume_file, jd_text, tfidf_similarity, result, suggestions,
                   resume_edu, jd_edu_req, edu_score,
                   resume_exp, years_matches, jd_requirements, exp_score,
                   extractor_input, sessions, module_globals>>

SpecDuration == InitDuration /\ [][ExtractExperience]_vars

\* Claims on the experience duration (checked under SpecDuration)

\* the k-th pair is (dates[2k], dates[2k+1]) counting from 0, which is
\* (dates[2k - 1], dates[2k]) counting from 1; a last date without partner
\* belongs to no pair
DatePairs == 1..(Len(extractor_input.dates) \div 2)

PairStart(k) == extractor_input.dates[2 * k - 1]

PairEnd(k) == extractor_input.dates[2 * k]

ValidPairs == {k \in DatePairs : PairStart(k) # Unparsable /\ PairEnd(k) # Unparsable}

\* the days the valid pairs add up to
ClaimedDays ==
    SeqSum([k \in DatePairs |-> IF k \in ValidPairs THEN PairEnd(k) - PairStart(k) ELSE 0])

\* C20 as stated: every valid pair contributes end - start in years, a
\* pair with an unparsable date contributes nothing and stops nothing, a
\* last unpaired date is ignored; the duration is the sum rounded to one
\* decimal, or null if the sum is zero or no pair is valid
C20_DurationNullIfZero ==
    (pc = "duration_done" /\ extractor_input.found) =>
        IF ValidPairs = {} \/ ClaimedDays = 0
        THEN extractor_output.duration = NoDuration
        ELSE /\ extractor_output.duration # NoDuration
             /\ extractor_output.duration = Round1(YearsOfDays(ClaimedDays))

\* C20, amended: the same sum; the duration is the sum rounded to one
\* decimal when the sum is positive, and null when it is zero or negative
\* or no pair is valid
C20_DurationNullUnlessPositive ==
    (pc = "duration_done" /\ extractor_input.found) =>
        IF ClaimedDays > 0
        THEN extractor_output.duration = Round1(YearsOfDays(ClaimedDays))
        ELSE extractor_output.duration = NoDuration

\* the first pair has an unparsable start, the second is three years long:
\* 3.0 years
C20_Witness ==
    /\ pc = "duration_done"
    /\ extractor_input.dates = <<Unparsable, 365, 0, 1096>>
    /\ extractor_output.duration = 30

----------------------------------------------------------------------------
\* Open date ranges (resume_parser.py, extract_experience, lines 166-186).
\* Here the experience section is given by its items in document order: the
\* strings date_pattern matches, and the words "present" and "current"
\* standing where a date would stand ("Jan 2020 - Present").

MaxItems == 4   \* items of an experience section

\* a match of date_pattern with "present" in it: the pattern lets letters
\* follow the month name, "Sepresent 2020"; parser.parse raises on it
PresentToken == 0 - 2

\* the word "present", which date_pattern does not match
PresentWord == 0 - 3

\* the word "current", which date_pattern does not match
CurrentWord == 0 - 4

\* day number parser.parse gives datetime.datetime.now().strftime("%b %Y")
Now == 1461

\* day numbers of the dates written in the section
WrittenDates == {0, 365, 1096}

SectionItems == WrittenDates \cup {PresentToken, PresentWord, CurrentWord}

ExperienceTextInputs == [found : {TRUE}, items : SeqsUpTo(SectionItems, MaxItems)]

\* what date_pattern matches
IsDateMatch(item) == item \in WrittenDates \cup {PresentToken, Unparsable}

\* re.findall(date_pattern, experience_section, re.IGNORECASE)
FindDates(items) == SelectSeq(items, IsDateMatch)

\* "present" in end_date.lower()
ContainsPresent(item) == item \in {PresentToken, PresentWord}

\* what parser.parse makes of the dates: the end date of a pair (dates[1],
\* dates[3], ... counting from 0) is replaced by the current month when
\* "present" is in it; a start date goes to parser.parse as it is, and
\* parser.parse raises on everything that is not a written date
ResolvePresent(dates) ==
    [i \in DOMAIN dates |->
        IF i % 2 = 0 /\ ContainsPresent(dates[i]) THEN Now
        ELSE IF dates[i] \in WrittenDates THEN dates[i]
        ELSE Unparsable]

\* extract_experience on the items of the section
extract_experience_of(section) ==
    extract_experience([found |-> section.found,
                        dates |-> ResolvePresent(FindDates(section.items))])

InitDates ==
    /\ extractor_input \in ExperienceTextInputs
    /\ extractor_output = NotRun
    /\ pc = "dates_idle"
    /\ resume_file = NoFile /\ jd_text = NoFile /\ tfidf_similarity = 0
    /\ result = NoResult /\ suggestions = <<>>
    /\ resume_edu = [degrees |-> <<>>]
    /\ jd_edu_req = [degree_required |-> FALSE, degree_level |-> None]
    /\ edu_score = NotRun
    /\ resume_exp = [duration |-> NoDuration] /\ years_matches = <<>>
    /\ jd_requirements = <<>> /\ exp_score = NotRun
    /\ sessions = <<>>
    /\ module_globals = ImportedGlobals

ExtractExperienceOfText ==
    /\ pc = "dates_idle"
    /\ extractor_output' = extract_experience_of(extractor_input)
    /\ pc' = "dates_done"
    /\ UNCHANGED <<resume_file, jd_text, tfidf_similarity, result, suggestions,
                   resume_edu, jd_edu_req, edu_score,
                   resume_exp, years_matches, jd_requirements, exp_score,
                   extractor_input, sessions, module_globals>>

SpecDates == InitDates /\ [][ExtractExperienceOfText]_vars

\* Claims on open date ranges (checked under SpecDates)

OpenEndWords == {PresentWord, CurrentWord}

\* the section is a list of date ranges, start and end, some of them open:
\* every start is a written date, every end a written date or one of the
\* two words
ListOfRanges(items) ==
    /\ Len(items) % 2 = 0
    /\ \A i \in DOMAIN items :
           IF i % 2 = 1 THEN items[i] \in WrittenDates
           ELSE items[i] \in WrittenDates \cup OpenEndWords

HasOpenRange(items) == \E i \in DOMAIN items : items[i] \in OpenEndWords

\* the days of the ranges as written, an open range ending now
RangeDays(items) ==
    SeqSum([k \in 1..(Len(items) \div 2) |->
               (IF items[2 * k] \in OpenEndWords THEN Now ELSE items[2 * k])
               - items[2 * k - 1]])

\* C21: in a section of date ranges, a range whose end is written
\* "present" or "current" is the pair (start, current date): it adds the
\* days from its start until now to the duration, and the ranges after it
\* are paired as they are written
C21_OpenRangeEndsNow ==
    (/\ pc = "dates_done"
     /\ ListOfRanges(extractor_input.items)
     /\ HasOpenRange(extractor_input.items)) =>
        extractor_output.duration =
            IF RangeDays(extractor_input.items) > 0
            THEN Round1(YearsOfDays(RangeDays(extractor_input.items)))
            ELSE NoDuration

----------------------------------------------------------------------------
\* Importance of an occurrence (job_matcher.py, extract_jd_skills, lines
\* 51-62 and 68-77).  A job text with one match of the phrase matcher, on
\* python, and at most one hit of the regular expression, on sql; either
\* window holds any of the eight marker words.

MarkerWindows == SUBSET (MustMarkers \cup PreferredMarkers)

ImportanceInputs ==
    [phrase_matches : {<<[skill |-> "python", context |-> w]>> : w \in MarkerWindows},
     regex_hits :
        {[skill \in Range(ALL_SKILLS) |->
             IF skill = "sql" THEN hit ELSE [found |-> FALSE, context |-> {}]] :
         hit \in {[found |-> FALSE, context |-> {}]} \cup [found : {TRUE}, context : MarkerWindows]}]

InitImportance ==
    /\ extractor_input \in ImportanceInputs
    /\ extractor_output = NotRun
    /\ pc = "jd_skills_idle"
    /\ resume_file = NoFile /\ jd_text = NoFile /\ tfidf_similarity = 0
    /\ result = NoResult /\ suggestions = <<>>
    /\ resume_edu = [degrees |-> <<>>]
    /\ jd_edu_req = [degree_required |-> FALSE, degree_level |-> None]
    /\ edu_score = NotRun
    /\ resume_exp = [duration |-> NoDuration] /\ years_matches = <<>>
    /\ jd_requirements = <<>> /\ exp_score = NotRun
    /\ sessions = <<>>
    /\ module_globals = ImportedGlobals

SpecImportance == InitImportance /\ [][ExtractJdSkills]_vars

\* Claims on the importance tags (checked under SpecImportance)

\* the window that gives the skill its tag: the one of its last match by
\* the phrase matcher, or else the one of the regular expression
WindowOf(skill) ==
    IF MatchesOf(skill) # {}
    THEN extractor_input.phrase_matches[LastMatchOf(skill)].context
    ELSE extractor_input.regex_hits[skill].context

HoldsMust(window) ==
    \E marker \in {"must", "required", "essential", "necessary"} : marker \in window

HoldsPreferred(window) ==
    \E marker \in {"preferred", "nice to have", "plus", "desirable"} : marker \in window

\* C22: the tag of an occurrence is must_have when its window holds one of
\* "must", "required", "essential", "necessary", whether or not a preferred
\* marker is there too; else preferred when it holds one of "preferred",
\* "nice to have", "plus", "desirable"; else standard; it is always one of
\* the three
C22_ImportancePrecedence ==
    pc = "jd_skills_done" =>
        \A i \in DOMAIN extractor_output :
            LET tag == extractor_output[i].importance
                window == WindowOf(extractor_output[i].skill)
            IN  /\ tag \in {"must_have", "preferred", "standard"}
                /\ HoldsMust(window) => tag = "must_have"
                /\ (~HoldsMust(window) /\ HoldsPreferred(window)) => tag = "preferred"
                /\ (~HoldsMust(window) /\ ~HoldsPreferred(window)) => tag = "standard"

\* python with "essential" and "nice to have" in its window, sql with
\* "desirable" alone in its window
C22_Witness ==
    /\ pc = "jd_skills_done"
    /\ extractor_input.phrase_matches =
           <<[skill |-> "python", context |-> {"essential", "nice to have"}]>>
    /\ extractor_input.regex_hits["sql"] = [found |-> TRUE, context |-> {"desirable"}]
    /\ extractor_output = <<[skill |-> "python", importance |-> "must_have"],
                            [skill |-> "sql", importance |-> "preferred"]>>

----------------------------------------------------------------------------
\* Text normaliser (job_matcher.py, clean_text), run on texts that are
\* sequences of characters.  "LF" is the line feed, "I_dot" the capital I
\* with a dot above (U+0130), "dot_above" the combining dot (U+0307) and
\* "e_acute" the letter e with an acute accent.

MaxCleanLen == 4   \* characters of a text given to clean_text

\* a letter in either case, a digit, a sign, two kinds of whitespace, a
\* capital whose lower case is two characters, a letter outside a-z
CleanAlphabet == {"a", "C", "1", "+", " ", "LF", "I_dot", "e_acute"}

CleanTextInputs == SeqsUpTo(CleanAlphabet, MaxCleanLen)

Digits == {"0", "1", "2", "3", "4", "5", "6", "7", "8", "9"}

LowerLetters == WordChars \ (Digits \cup {"_"})

UpperLetterSeq ==
    <<"A", "B", "C", "D", "E", "F", "G", "H", "I", "J", "K", "L", "M",
      "N", "O", "P", "Q", "R", "S", "T", "U", "V", "W", "X", "Y", "Z">>

LowerLetterSeq ==
    <<"a", "b", "c", "d", "e", "f", "g", "h", "i", "j", "k", "l", "m",
      "n", "o", "p", "q", "r", "s", "t", "u", "v", "w", "x", "y", "z">>

UpperLetters == Range(UpperLetterSeq)

\* \s of the re module on str, and what str.strip() strips
Whitespace == {" ", "LF", "TAB", "NBSP"}

\* str.lower() of one character: one or two characters
LowerOf(ch) ==
    IF ch \in UpperLetters
    THEN <<LowerLetterSeq[CHOOSE k \in DOMAIN UpperLetterSeq : UpperLetterSeq[k] = ch]>>
    ELSE IF ch = "I_dot" THEN <<"i", "dot_above">>
    ELSE <<ch>>

\* text.lower()
RECURSIVE StrLower(_)
StrLower(text) ==
    IF text = <<>> THEN <<>> ELSE LowerOf(Head(text)) \o StrLower(Tail(text))

\* re.sub(r'[^a-zA-Z0-9\s]', ' ', ...)
ReplaceSpecial(text) ==
    [i \in DOMAIN text |->
        IF text[i] \in LowerLetters \cup UpperLetters \cup Digits \cup Whitespace
        THEN text[i]
        ELSE " "]

\* re.sub(r'\s+', ' ', ...)
RECURSIVE CollapseWhitespace(_)
CollapseWhitespace(text) ==
    IF text = <<>> THEN <<>>
    ELSE IF Head(text) \in Whitespace
         THEN IF Len(text) > 1 /\ text[2] \in Whitespace
              THEN CollapseWhitespace(Tail(text))
              ELSE <<" ">> \o CollapseWhitespace(Tail(text))
         ELSE <<Head(text)>> \o CollapseWhitespace(Tail(text))

\* str.strip()
RECURSIVE Strip(_)
Strip(text) ==
    IF text = <<>> THEN <<>>
    ELSE IF Head(text) \in Whitespace THEN Strip(Tail(text))
    ELSE IF text[Len(text)] \in Whitespace THEN Strip(SubSeq(text, 1, Len(text) - 1))
    ELSE text

clean_text_unstripped(text) == CollapseWhitespace(ReplaceSpecial(StrLower(text)))

clean_text(text) == Strip(CollapseWhitespace(ReplaceSpecial(StrLower(text))))

InitCleanText ==
    /\ extractor_input \in CleanTextInputs
    /\ extractor_output = NotRun
    /\ pc = "clean_idle"
    /\ resume_file = NoFile /\ jd_text = NoFile /\ tfidf_similarity = 0
    /\ result = NoResult /\ suggestions = <<>>
    /\ resume_edu = [degrees |-> <<>>]
    /\ jd_edu_req = [degree_required |-> FALSE, degree_level |-> None]
    /\ edu_score = NotRun
    /\ resume_exp = [duration |-> NoDuration] /\ years_matches = <<>>
    /\ jd_requirements = <<>> /\ exp_score = NotRun
    /\ sessions = <<>>
    /\ module_globals = ImportedGlobals

\* clean_text on the text
CleanText ==
    /\ pc = "clean_idle"
    /\ extractor_output' = clean_text(extractor_input)
    /\ pc' = "clean_done"
    /\ UNCHANGED <<resume_file, jd_text, tfidf_similarity, result, suggestions,
                   resume_edu, jd_edu_req, edu_score,
                   resume_exp, years_matches, jd_requirements, exp_score,
                   extractor_input, sessions, module_globals>>

\* clean_text on what clean_text returned
CleanTextAgain ==
    /\ pc = "clean_done"
    /\ extractor_input' = extractor_output
    /\ extractor_output' = clean_text(extractor_output)
    /\ pc' = "clean_again"
    /\ UNCHANGED <<resume_file, jd_text, tfidf_similarity, result, suggestions,
                   resume_edu, jd_edu_req, edu_score,
                   resume_exp, years_matches, jd_requirements, exp_score,
                   sessions, module_globals>>

NextCleanText == CleanText \/ CleanTextAgain

SpecCleanText == InitCleanText /\ [][NextCleanText]_vars

\* Claims on clean_text (checked under SpecCleanText)

\* only a-z, 0-9 and single blanks, none of them first or last
IsNormalized(text) ==
    /\ \A i \in DOMAIN text : text[i] \in LowerLetters \cup Digits \cup {" "}
    /\ text # <<>> => (text[1] # " " /\ text[Len(text)] # " ")
    /\ \A i \in DOMAIN text : i < Len(text) => ~(text[i] = " " /\ text[i + 1] = " ")

\* C23: clean_text returns, for every text, a text of the characters a-z
\* and 0-9 and single blanks, without a blank at either end and without
\* two blanks in a row; applied to its own result it returns the result
\* unchanged
C23_CleanTextIdempotent ==
    /\ pc \in {"clean_done", "clean_again"} => IsNormalized(extractor_output)
    /\ pc = "clean_again" => extractor_output = extractor_input

\* a line feed, "C", "+" and the dotted capital I become "c i", and "c i"
\* stays "c i"
C23_Witness ==
    /\ pc = "clean_again"
    /\ extractor_input = <<"c", " ", "i">>
    /\ extractor_output = <<"c", " ", "i">>

\* the first application on that text
C23_WitnessFirst ==
    /\ pc = "clean_done"
    /\ extractor_input = <<"LF", "C", "+", "I_dot">>
    /\ extractor_output = <<"c", " ", "i">>

----------------------------------------------------------------------------
\* Analyses at the thresholds of the suggestion rules: resumes and job
\* descriptions whose component scores are the lowest values that fire no
\* rule (skills 50, keywords 40, content 30, experience 50, education 70),
\* or fall just below

ThresholdTokens == <<"agile", "cloud", "data", "team", "code">>

\* two or one of the five top keywords of the job are in the resume
ThresholdResumeTexts ==
    {[has_terms |-> TRUE,
      counts |-> [agile |-> 1, cloud |-> found, data |-> 0, team |-> 0, code |-> 0]] :
     found \in {0, 1}}

ThresholdResumes ==
    [text : ThresholdResumeTexts,
     skills : SUBSET {"python", "sql"},
     experience : {[duration |-> NoDuration], [duration |-> 20]},
     education : {[degrees |-> <<>>], [degrees |-> <<S_masters>>]}]

ThresholdJdSkills ==
    {<<[skill |-> "python", importance |-> importance],
       [skill |-> "sql", importance |-> "standard"]>> :
     importance \in {"must_have", "preferred", "standard"}}

ThresholdJds ==
    {[is_empty |-> FALSE,
      has_terms |-> TRUE,
      skills |-> skills,
      years_matches |-> years,
      degree_required |-> edu.degree_required,
      degree_level |-> edu.degree_level,
      tokens |-> ThresholdTokens] :
     skills \in ThresholdJdSkills,
     years \in {<<>>, <<[years |-> 3, context |-> {}]>>},
     edu \in {[degree_required |-> TRUE, degree_level |-> S_phd],
              [degree_required |-> FALSE, degree_level |-> None]}}

\* cosine similarities 0.3 and 0.299
ThresholdSimilarities == {300, 299}

InitThresholds ==
    /\ resume_file \in ThresholdResumes
    /\ jd_text \in ThresholdJds
    /\ tfidf_similarity \in ThresholdSimilarities
    /\ pc = "idle"
    /\ result = NoResult
    /\ suggestions = <<>>
    /\ resume_edu = [degrees |-> <<>>]
    /\ jd_edu_req = [degree_required |-> FALSE, degree_level |-> None]
    /\ edu_score = NotRun
    /\ resume_exp = [duration |-> NoDuration]
    /\ years_matches = <<>>
    /\ jd_requirements = <<>>
    /\ exp_score = NotRun
    /\ extractor_input = <<>>
    /\ extractor_output = NotRun
    /\ sessions = <<>>
    /\ module_globals = ImportedGlobals

SpecThresholds == InitThresholds /\ [][Next]_vars

\* Claims on the generic and the low-score rule (checked under SpecThresholds)

\* C24: rule 8 and rule 9 never both fire on a result of score_resume: when
\* none of the rules 1-7 fires the score is at least 40, so no list holds
\* both "Resume Format" and "Overall Match", and every list with "Overall
\* Match" holds a suggestion of one of the rules 1-7
C24_GenericNeverWithOverall ==
    /\ (Scored /\ ~SomeRuleFired) => result.score >= 400
    /\ Suggested =>
           /\ ~({"Resume Format", "Overall Match"} \subseteq Range(Categories))
           /\ "Overall Match" \in Range(Categories) =>
                  Range(Categories) \cap RuleCategories # {}

\* every component at its threshold but education at 70: the score is
\* 47.0, no rule 1-7 fires, and the list is the two generic suggestions
C24_Witness ==
    /\ pc = "suggested"
    /\ result.component_scores =
           [skills_match |-> 500, keyword_match |-> 400, content_similarity |-> 300,
            experience_match |-> 500, education_match |-> 700]
    /\ result.score = 470
    /\ ~SomeRuleFired
    /\ Categories = <<"Resume Format", "Quantify Achievements">>

\* a score below 40: "Overall Match" follows suggestions of the rules 1-7
C24_WitnessLow ==
    /\ pc = "suggested"
    /\ result.score < 400
    /\ Len(suggestions) > 1
    /\ suggestions[Len(suggestions)].category = "Overall Match"
    /\ "Resume Format" \notin Range(Categories)

----------------------------------------------------------------------------
\* Claims on the two experience functions composed (checked under SpecExp)

\* some years match has a vocabulary skill in its window
SkillNearYears == \E i \in DOMAIN years_matches : years_matches[i].context # {}

\* C25: when the job text names a vocabulary skill within 50 characters of
\* a years mention, the requirements have no "general" entry and the
\* experience score is 0.5 for every resume, whatever its duration; the
\* scores 1.0, 0.7 and 0.4 are given only when no years match has a
\* vocabulary skill in its window
C25_SkillNearYearsIsNeutral ==
    /\ (Extracted /\ SkillNearYears) => GeneralEntries = {}
    /\ (pc = "exp_done" /\ SkillNearYears) => exp_score = 5
    /\ (pc = "exp_done" /\ exp_score \in {10, 7, 4}) => ~SkillNearYears

\* "3 years" next to python, a resume with 4.0 years: 0.5
C25_Witness ==
    /\ pc = "exp_done"
    /\ years_matches = <<[years |-> 3, context |-> {"python"}]>>
    /\ resume_exp.duration = 40
    /\ jd_requirements = << <<"python", 3>> >>
    /\ exp_score = 5

----------------------------------------------------------------------------
\* Job skill extractor on texts that are sequences of characters
\* (job_matcher.py, extract_jd_skills, with clean_text and the vocabulary
\* of resume_parser.py): every short text over a few characters, and three
\* job texts written out

MaxJdLen == 5   \* characters of a short job text

\* the characters of the short texts: enough to spell "go", "c++" and "c#"
JdAlphabet == {"c", "+", "#", "g", "G", "o", " "}

S_csharp == <<"c", "#">>

S_node_js == <<"n", "o", "d", "e", ".", "j", "s">>

S_ci_cd == <<"c", "i", "/", "c", "d">>

\* five terms of ALL_SKILLS, as spelled and in the order of the list
JdSkillTermSeq == <<S_cpp, S_csharp, S_go, S_node_js, S_ci_cd>>

\* "C++ required, Go a plus"
JdText_CppRequired ==
    <<"C", "+", "+", " ", "r", "e", "q", "u", "i", "r", "e", "d", ",", " ",
      "G", "o", " ", "a", " ", "p", "l", "u", "s">>

\* "Node.js, CI/CD or C#"
JdText_NodeCiCd ==
    <<"N", "o", "d", "e", ".", "j", "s", ",", " ", "C", "I", "/", "C", "D", " ",
      "o", "r", " ", "C", "#">>

\* "go required"
JdText_GoRequired == <<"g", "o", " ", "r", "e", "q", "u", "i", "r", "e", "d">>

JdTextInputs ==
    SeqsUpTo(JdAlphabet, MaxJdLen) \cup {JdText_CppRequired, JdText_NodeCiCd, JdText_GoRequired}

\* the marker words, as spelled
MarkerChars ==
    [marker \in MustMarkers \cup PreferredMarkers |->
        CASE marker = "must" -> <<"m", "u", "s", "t">>
          [] marker = "required" -> <<"r", "e", "q", "u", "i", "r", "e", "d">>
          [] marker = "essential" -> <<"e", "s", "s", "e", "n", "t", "i", "a", "l">>
          [] marker = "necessary" -> <<"n", "e", "c", "e", "s", "s", "a", "r", "y">>
          [] marker = "preferred" -> <<"p", "r", "e", "f", "e", "r", "r", "e", "d">>
          [] marker = "nice to have" -> <<"n", "i", "c", "e", " ", "t", "o", " ", "h", "a", "v", "e">>
          [] marker = "plus" -> <<"p", "l", "u", "s">>
          [] marker = "desirable" -> <<"d", "e", "s", "i", "r", "a", "b", "l", "e">>]

\* the marker words in the window of an occurrence: these texts are
\* shorter than 10 tokens and 50 characters, so the window of either pass
\* is the whole cleaned text
MarkersIn(jd_text_clean) ==
    {marker \in MustMarkers \cup PreferredMarkers :
        IsSubstring(MarkerChars[marker], jd_text_clean)}

\* the phrase matcher finds the term at i: the tokens of a cleaned text are
\* its words
PhraseMatchAt(skill, text, i) ==
    /\ StartsAt(skill, text, i)
    /\ i = 1 \/ text[i - 1] = " "
    /\ i + Len(skill) - 1 = Len(text) \/ text[i + Len(skill)] = " "

\* the loop over the matches of the phrase matcher, from the character i on
RECURSIVE PhrasePassOf(_, _, _)
PhrasePassOf(skills_found, jd_text_clean, i) ==
    IF i > Len(jd_text_clean) THEN skills_found
    ELSE LET here == {k \in DOMAIN JdSkillTermSeq : PhraseMatchAt(JdSkillTermSeq[k], jd_text_clean, i)}
         IN  IF here = {} THEN PhrasePassOf(skills_found, jd_text_clean, i + 1)
             ELSE PhrasePassOf(SetItem(skills_found, JdSkillTermSeq[CHOOSE k \in here : TRUE],
                                       ClassifyContext(MarkersIn(jd_text_clean))),
                               jd_text_clean, i + 1)

\* the loop "for skill in ALL_SKILLS: if skill not in skills_found and
\* re.search(...)", from the k-th term on
RECURSIVE RegexPassOf(_, _, _)
RegexPassOf(skills_found, jd_text_clean, k) ==
    IF k > Len(JdSkillTermSeq) THEN skills_found
    ELSE LET skill == JdSkillTermSeq[k]
         IN  IF skill \notin Keys(skills_found) /\ RegexFindsSkill(skill, jd_text_clean)
             THEN RegexPassOf(SetItem(skills_found, skill,
                                      ClassifyContext(MarkersIn(jd_text_clean))),
                              jd_text_clean, k + 1)
             ELSE RegexPassOf(skills_found, jd_text_clean, k + 1)

\* the two passes
SkillsFoundIn(jd_text_clean) ==
    RegexPassOf(PhrasePassOf(<<>>, jd_text_clean, 1), jd_text_clean, 1)

extract_jd_skills_of_lowered(text) == SkillsFoundIn(StrLower(text))

\* extract_jd_skills on the characters of the job text
extract_jd_skills_of(text) == SkillsFoundIn(clean_text(text))

InitJdText ==
    /\ extractor_input \in JdTextInputs
    /\ extractor_output = NotRun
    /\ pc = "jd_text_idle"
    /\ resume_file = NoFile /\ jd_text = NoFile /\ tfidf_similarity = 0
    /\ result = NoResult /\ suggestions = <<>>
    /\ resume_edu = [degrees |-> <<>>]
    /\ jd_edu_req = [degree_required |-> FALSE, degree_level |-> None]
    /\ edu_score = NotRun
    /\ resume_exp = [duration |-> NoDuration] /\ years_matches = <<>>
    /\ jd_requirements = <<>> /\ exp_score = NotRun
    /\ sessions = <<>>
    /\ module_globals = ImportedGlobals

ExtractJdSkillsOfText ==
    /\ pc = "jd_text_idle"
    /\ extractor_output' = extract_jd_skills_of(extractor_input)
    /\ pc' = "jd_text_done"
    /\ UNCHANGED <<resume_file, jd_text, tfidf_similarity, result, suggestions,
                   resume_edu, jd_edu_req, edu_score,
                   resume_exp, years_matches, jd_requirements, exp_score,
                   extractor_input, sessions, module_globals>>

SpecJdText == InitJdText /\ [][ExtractJdSkillsOfText]_vars

\* Claims on the keys of extract_jd_skills (checked under SpecJdText)

\* the terms with a character outside a-z, 0-9 and the blank
SignTerms ==
    {term \in Range(JdSkillTermSeq) :
        \E i \in DOMAIN term : term[i] \notin LowerLetters \cup Digits \cup {" "}}

\* C26: every key of the dict is a vocabulary term made of the characters
\* a-z, 0-9 and the blank only; a term with any other character ("c++",
\* "c#", "node.js", "ci/cd") is never a key, whatever the job text, so it
\* is in no matched list and no missing list and adds nothing to
\* skills_match, even for a resume that has these skills
C26_KeysWithoutSigns ==
    pc = "jd_text_done" =>
        /\ Keys(extractor_output) \subseteq Range(JdSkillTermSeq) \ SignTerms
        /\ \A importance \in {"must_have", "preferred", "standard"} :
               /\ Range(MatchedSkills(extractor_output, SignTerms, importance)) = {}
               /\ Range(MissingSkills(extractor_output, {}, importance)) \cap SignTerms = {}
        /\ MatchedWeight(extractor_output, SignTerms) = 0

\* "C++ required, Go a plus": go is the only key
C26_Witness ==
    /\ pc = "jd_text_done"
    /\ extractor_input = JdText_CppRequired
    /\ extractor_output = <<[skill |-> S_go, importance |-> "must_have"]>>

\* "c# Go": go is the only key
C26_WitnessShort ==
    /\ pc = "jd_text_done"
    /\ extractor_input = <<"c", "#", " ", "G", "o">>
    /\ extractor_output = <<[skill |-> S_go, importance |-> "standard"]>>

=============================================================================
